---- MODULE Spec2Model ----
(***************************************************************************)
(* Model of the claim/lock coordination subsystem of                       *)
(* scripts/check_claims.py: the ledger (.claude/active-work.yaml), the     *)
(* per-worktree claim files (.claim.yaml), the session files, and the      *)
(* command-line operations that read and write them.                       *)
(*                                                                         *)
(* Optional Python values (None or a value) are sequences of length 0 or   *)
(* 1: <<>> is None / a missing key, <<v>> is the value v.                   *)
(* A worktree path is identified with the branch checked out in it: git    *)
(* allows one worktree per branch.                                         *)
(* A session id (a uuid4 drawn when the session file of a pid is created,  *)
(* and the file is never deleted) is identified with that pid.             *)
(***************************************************************************)
EXTENDS Integers, Sequences, FiniteSets, TLC

\* ------------------------------------------------------------------ bounds
MaxTicks == 1
MaxCompleted == 1

\* Minutes the clock advances in one Tick step.
TickMinutes == 40

\* Session ids a process can draw beyond its first.
MaxUuids == 1

\* ------------------------------------------------------- program constants
STALENESS_MINUTES == 30
KeepRelease == 20
KeepCleanup == 50
DefaultStaleHours == 8
RetentionHours == 24

\* ------------------------------------------------------------ input domains
Branches == {"a", "b"}
MainBranch == "main"
\* The order in which `git worktree list` reports the worktrees: the main
\* checkout first.
WtOrder == <<"main", "a", "b">>
Pids == {1, 2}
None == <<>>
Some(v) == <<v>>
PlanInputs == {None, Some(0), Some(5), Some(7)}
ValidFeatures == {"shared", "ledger"}
FeatureInputs == {None, Some("shared"), Some("ledger"), Some("bogus")}
CcInputs == Branches \cup {MainBranch}
TheTask == "task"

\* Python truthiness of an optional int and of an optional str.
TruthyInt(opt) == opt # None /\ opt[1] # 0
TruthyStr(opt) == opt # None /\ opt[1] # ""
TruthyList(opt) == opt # None /\ opt[1] # <<>>

VARIABLES
    worktrees,        \* branches that have a linked worktree (git worktree list)
    claimFile,        \* branch (main included) -> optional content of <worktree>/.claim.yaml
    ledgerClaims,     \* "claims" of .claude/active-work.yaml
    ledgerCompleted,  \* "completed" of .claude/active-work.yaml
    ledgerFault,      \* what is wrong with .claude/active-work.yaml as a file
    sessions,         \* pid -> optional content of .claude/sessions/<host>-<pid>.session
    now,              \* clock, in ticks of TickMinutes minutes
    inflight,         \* pid -> optional claim request that has loaded its data and not yet written
    last,             \* outcome of the last command: what it returned and printed
    query,            \* what the last --check-conflict or removal guard was asked about
    cycle,            \* history: progress of a claim -> release -> claim cycle
    gone,             \* history: cc_ids released or cleaned up and not claimed since
    raced,            \* history: a claim request wrote from data that was no longer current
    marker            \* branch -> optional content of <worktree>/.claude_session

vars == <<worktrees, claimFile, ledgerClaims, ledgerCompleted, ledgerFault, sessions, now,
          inflight, last, query, cycle, gone, raced, marker>>

\* ledgerFault: the file parses (NoFault), is not valid YAML, or cannot be
\* opened.
NoFault == "none"
LedgerFaults == {"malformed", "unreadable"}

persisted == <<claimFile, ledgerClaims, ledgerCompleted, ledgerFault>>

Minutes(t) == t * TickMinutes

\* ------------------------------------------------------------- timestamps
\* datetime.strftime("%Y-%m-%dT%H:%M:%SZ") and datetime.isoformat() write two
\* different texts of the same instant.
StrftimeZ(t) == [fmt |-> "Z", t |-> t]
IsoFormat(t) == [fmt |-> "iso", t |-> t]

\* ------------------------------------------------------------- sequences
RECURSIVE SeqRange(_)
SeqRange(s) == IF s = <<>> THEN {} ELSE {Head(s)} \cup SeqRange(Tail(s))

LastN(s, n) == IF Len(s) <= n THEN s ELSE SubSeq(s, Len(s) - n + 1, Len(s))

\* list.remove(x): drops the first element equal to x.
RECURSIVE RemoveFirst(_, _)
RemoveFirst(s, x) ==
    IF s = <<>> THEN <<>>
    ELSE IF Head(s) = x THEN Tail(s)
    ELSE <<Head(s)>> \o RemoveFirst(Tail(s), x)

\* ---------------------------------------------------------------- sessions
\* A session file holds a mapping; every key may be missing.  EmptySession
\* is what load_session makes of an empty file; an unreadable file loads as
\* None and is treated the same way by every caller.
EmptySession ==
    [session_id |-> None, started_at |-> None, last_activity |-> None,
     working_on |-> None]

\* A timestamp text that datetime.fromisoformat rejects.
Malformed == [fmt |-> "bad", t |-> 0]

\* load_session(file of pid p), as an optional: None when the file is absent
\* or holds nothing.
LoadSession(p) ==
    IF sessions[p] = None \/ sessions[p] = Some(EmptySession) THEN None
    ELSE sessions[p]

\* Every session id that a session file or a claim carries.
RECURSIVE SessionIdsOfClaims(_)
SessionIdsOfClaims(claims) ==
    IF claims = <<>> THEN {}
    ELSE {Head(claims).session_id} \cup SessionIdsOfClaims(Tail(claims))

IdsInUse ==
    {sessions[q][1].session_id[1] :
        q \in {r \in Pids : sessions[r] # None /\ sessions[r][1].session_id # None}}
    \cup SessionIdsOfClaims(ledgerClaims)
    \cup {claimFile[b][1].session_id : b \in {c \in DOMAIN claimFile : claimFile[c] # None}}

\* str(uuid.uuid4()): an id that nothing carries yet.  The ids that process p
\* draws are p, p + |Pids|, p + 2|Pids|, ...
SessionIds == 1..(Cardinality(Pids) * (MaxUuids + 1))
Uuid4(p) ==
    LET free == {i \in SessionIds : i % Cardinality(Pids) = p % Cardinality(Pids)}
                \ IdsInUse
    IN  CHOOSE i \in free : \A k \in free : i <= k

\* Mutant of GetOrCreateSession: every call draws a new id.
GetOrCreateSession_NewId(p) ==
    [session_id |-> Some(Uuid4(p)), started_at |-> Some(IsoFormat(now)),
     last_activity |-> Some(IsoFormat(now)), working_on |-> None]

\* get_or_create_session: the record it saves and returns.
GetOrCreateSession(p) ==
    LET session == LoadSession(p)
    IN  IF session # None /\ session[1].session_id # None
        THEN [session[1] EXCEPT !.last_activity = Some(IsoFormat(now))]
        ELSE [session_id |-> Some(Uuid4(p)), started_at |-> Some(IsoFormat(now)),
              last_activity |-> Some(IsoFormat(now)), working_on |-> None]

\* get_session_id -> get_or_create_session: the session files afterwards and
\* the id returned.
SessionsAfterGet(p) == [sessions EXCEPT ![p] = Some(GetOrCreateSession(p))]
SessionIdOf(p) == GetOrCreateSession(p).session_id[1]

\* Mutant of IsSessionStaleAfter: an age equal to the threshold is stale.
IsSessionStaleAfter_Inclusive(sid, staleness_minutes) ==
    LET holders == {q \in Pids : /\ LoadSession(q) # None
                                 /\ LoadSession(q)[1].session_id = Some(sid)}
        session == LoadSession(CHOOSE q \in holders : \A r \in holders : q <= r)[1]
    IN  IF holders = {} THEN TRUE
        ELSE IF session.last_activity = None THEN TRUE
        ELSE IF session.last_activity[1].fmt # "iso" THEN TRUE
        ELSE Minutes(now) - Minutes(session.last_activity[1].t) >= staleness_minutes

\* is_session_stale(session_id, staleness_minutes): the first session file
\* with that id decides; without one the session is stale.
IsSessionStaleAfter(sid, staleness_minutes) ==
    LET holders == {q \in Pids : /\ LoadSession(q) # None
                                 /\ LoadSession(q)[1].session_id = Some(sid)}
        session == LoadSession(CHOOSE q \in holders : \A r \in holders : q <= r)[1]
    IN  IF holders = {} THEN TRUE
        ELSE IF session.last_activity = None THEN TRUE
        ELSE IF session.last_activity[1].fmt # "iso" THEN TRUE
        ELSE Minutes(now) - Minutes(session.last_activity[1].t) > staleness_minutes

\* is_session_stale(session_id) with the default threshold.
IsSessionStale(sid) == IsSessionStaleAfter(sid, STALENESS_MINUTES)

\* Mutant of UpdateSessionHeartbeat: working_on is overwritten also when no
\* value is given.
UpdateSessionHeartbeat_Overwrites(p, working_on) ==
    LET session == LoadSession(p)
    IN  IF session = None THEN GetOrCreateSession(p)
        ELSE [session[1] EXCEPT !.last_activity = Some(IsoFormat(now)),
                                !.working_on = working_on]

\* update_session_heartbeat(working_on): the record it saves and returns.
UpdateSessionHeartbeat(p, working_on) ==
    LET session == LoadSession(p)
    IN  IF session = None THEN GetOrCreateSession(p)
        ELSE [session[1] EXCEPT !.last_activity = Some(IsoFormat(now)),
                                !.working_on = IF working_on # None THEN working_on
                                               ELSE @]

\* ------------------------------------------------------- conflict detection
\* Mutant of CheckScopeLoop: only plans are compared.
RECURSIVE CheckScopeLoop_PlanOnly(_, _, _)
CheckScopeLoop_PlanOnly(new_plan, new_feature, claims) ==
    IF claims = <<>> THEN <<>>
    ELSE LET claim == Head(claims)
             rest == CheckScopeLoop_PlanOnly(new_plan, new_feature, Tail(claims))
         IN  IF TruthyInt(new_plan) /\ TruthyInt(claim.plan) /\ new_plan = claim.plan
             THEN <<claim>> \o rest
             ELSE rest

\* Mutant of CheckScopeLoop: the loop stops at the first conflict.
RECURSIVE CheckScopeLoop_FirstOnly(_, _, _)
CheckScopeLoop_FirstOnly(new_plan, new_feature, claims) ==
    IF claims = <<>> THEN <<>>
    ELSE LET claim == Head(claims)
         IN  IF \/ TruthyInt(new_plan) /\ TruthyInt(claim.plan) /\ new_plan = claim.plan
                \/ /\ TruthyStr(new_feature) /\ TruthyStr(claim.feature)
                   /\ new_feature = claim.feature
                   /\ claim.feature # Some("shared")
             THEN <<claim>>
             ELSE CheckScopeLoop_FirstOnly(new_plan, new_feature, Tail(claims))

\* check_scope_conflict's loop over the existing claims.
RECURSIVE CheckScopeLoop(_, _, _)
CheckScopeLoop(new_plan, new_feature, claims) ==
    IF claims = <<>> THEN <<>>
    ELSE LET claim == Head(claims)
             rest == CheckScopeLoop(new_plan, new_feature, Tail(claims))
         IN  IF TruthyInt(new_plan) /\ TruthyInt(claim.plan) /\ new_plan = claim.plan
             THEN <<claim>> \o rest
             ELSE IF /\ TruthyStr(new_feature) /\ TruthyStr(claim.feature)
                     /\ new_feature = claim.feature
                     /\ claim.feature # Some("shared")
             THEN <<claim>> \o rest
             ELSE rest

\* Mutant of CheckScopeConflict: "shared" is exclusive like any other feature.
CheckScopeConflict_SharedExclusive(new_plan, new_feature, existing_claims) ==
    SelectSeq(existing_claims,
              LAMBDA claim :
                 \/ TruthyInt(new_plan) /\ TruthyInt(claim.plan) /\ new_plan = claim.plan
                 \/ TruthyStr(new_feature) /\ new_feature = claim.feature)

\* Mutant of CheckScopeConflict: no early return for the "shared" feature.
CheckScopeConflict_NoSharedReturn(new_plan, new_feature, existing_claims) ==
    CheckScopeLoop(new_plan, new_feature, existing_claims)

CheckScopeConflict(new_plan, new_feature, existing_claims) ==
    IF new_feature = Some("shared") THEN <<>>
    ELSE CheckScopeLoop(new_plan, new_feature, existing_claims)

\* ------------------------------------------------------------ claim records
\* The dict written to .claim.yaml by save_claim_to_worktree: cc_id, task,
\* claimed_at, session_id, and plan and feature when truthy. It takes no
\* files argument and writes no files key.
ClaimData(cc_id, plan, feature, sid, t) ==
    [cc_id |-> cc_id, task |-> TheTask, claimed_at |-> StrftimeZ(t),
     session_id |-> sid,
     plan |-> IF TruthyInt(plan) THEN plan ELSE None,
     feature |-> IF TruthyStr(feature) THEN feature ELSE None,
     files |-> None, worktree_path |-> None, legacy |-> FALSE]

\* Path(worktree_path).exists(): the main checkout always does.
PathExists(b) == b = MainBranch \/ b \in worktrees

\* load_claim_from_worktree: the file's dict with worktree_path added.
LoadClaimFromWorktree(b) ==
    IF PathExists(b) /\ claimFile[b] # None
    THEN Some([claimFile[b][1] EXCEPT !.worktree_path = Some(b)])
    ELSE None

\* Mutant of WorktreeClaimsOf: the main checkout is scanned like a worktree.
RECURSIVE WorktreeClaimsOf_ReadsMain(_)
WorktreeClaimsOf_ReadsMain(order) ==
    IF order = <<>> THEN <<>>
    ELSE LET b == Head(order)
             c == LoadClaimFromWorktree(b)
         IN  (IF PathExists(b) /\ c # None
              THEN <<[c[1] EXCEPT !.cc_id = b]>> ELSE <<>>)
             \o WorktreeClaimsOf_ReadsMain(Tail(order))

\* load_claims_from_worktrees: every non-main worktree's claim, cc_id forced
\* to the worktree's branch.
RECURSIVE WorktreeClaimsOf(_)
WorktreeClaimsOf(order) ==
    IF order = <<>> THEN <<>>
    ELSE LET b == Head(order)
             c == LoadClaimFromWorktree(b)
         IN  (IF PathExists(b) /\ b # MainBranch /\ c # None
              THEN <<[c[1] EXCEPT !.cc_id = b]>> ELSE <<>>)
             \o WorktreeClaimsOf(Tail(order))

LoadClaimsFromWorktrees == WorktreeClaimsOf(WtOrder)

CcIds(claims) == {c.cc_id : c \in SeqRange(claims)}

\* find_worktree_for_branch
FindWorktreeForBranch(branch) == IF PathExists(branch) THEN Some(branch) ELSE None

\* Mutant of LegacyOf: every ledger claim is kept.
RECURSIVE LegacyOf_KeepsAll(_, _)
LegacyOf_KeepsAll(legacy_claims, worktree_branches) ==
    IF legacy_claims = <<>> THEN <<>>
    ELSE <<[Head(legacy_claims) EXCEPT !.legacy = TRUE]>>
         \o LegacyOf_KeepsAll(Tail(legacy_claims), worktree_branches)

\* load_yaml: worktree claims first, then the ledger's claims whose cc_id has
\* no worktree claim, flagged _legacy.
RECURSIVE LegacyOf(_, _)
LegacyOf(legacy_claims, worktree_branches) ==
    IF legacy_claims = <<>> THEN <<>>
    ELSE (IF Head(legacy_claims).cc_id \notin worktree_branches
          THEN <<[Head(legacy_claims) EXCEPT !.legacy = TRUE]>> ELSE <<>>)
         \o LegacyOf(Tail(legacy_claims), worktree_branches)

\* Mutant of LoadYaml: the ledger alone is read.
LoadYaml_LedgerOnly ==
    [claims |-> LegacyOf(ledgerClaims, {}), completed |-> ledgerCompleted]

LoadYaml ==
    LET wt == LoadClaimsFromWorktrees
    IN  [claims |-> wt \o LegacyOf(ledgerClaims, CcIds(wt)),
         completed |-> ledgerCompleted]

ActiveClaims == LoadYaml.claims
ActiveIds == CcIds(ActiveClaims)

\* Mutant of FindByCcId: the loop takes the first claim whatever its cc_id
\* when none matches.
RECURSIVE FindByCcId_FirstClaim(_, _)
FindByCcId_FirstClaim(claims, cc_id) ==
    IF claims = <<>> THEN None
    ELSE IF Head(claims).cc_id = cc_id \/ Tail(claims) = <<>> THEN Some(Head(claims))
    ELSE FindByCcId_FirstClaim(Tail(claims), cc_id)

\* The first claim of a list with a given cc_id (the loops of add_claim and
\* release_claim), as an optional.
RECURSIVE FindByCcId(_, _)
FindByCcId(claims, cc_id) ==
    IF claims = <<>> THEN None
    ELSE IF Head(claims).cc_id = cc_id THEN Some(Head(claims))
    ELSE FindByCcId(Tail(claims), cc_id)

RECURSIVE IdsOf(_)
IdsOf(claims) ==
    IF claims = <<>> THEN <<>> ELSE <<Head(claims).cc_id>> \o IdsOf(Tail(claims))

\* ------------------------------------------------------------ outcomes
\* What a command returned (ok: exit code 0) and printed.
\* ids: the cc_ids it listed (the conflicting holders, the claims cleaned up).
Outcome(op, cc, force, ok, reason, ids) ==
    [op |-> op, cc |-> cc, force |-> force, ok |-> ok, reason |-> reason, ids |-> ids]

\* ------------------------------------------------------------ session commands
\* The call can draw the id it needs (bound on the ids of one process).
CanDraw(p) ==
    \/ LoadSession(p) # None /\ LoadSession(p)[1].session_id # None
    \/ \E i \in SessionIds \ IdsInUse : i % Cardinality(Pids) = p % Cardinality(Pids)

\* python scripts/check_claims.py --get-session-id
GetSessionId(p) ==
    /\ inflight[p] = None /\ CanDraw(p)
    /\ sessions' = SessionsAfterGet(p)
    /\ last' = Outcome("get_session_id", "", FALSE, TRUE, "", <<GetOrCreateSession(p)>>)
    /\ query' = Some(<<p, None>>)
    /\ UNCHANGED <<worktrees, persisted, now, inflight, marker>>

\* python scripts/check_claims.py --heartbeat [--working-on W]: the session is
\* saved, then main prints session['session_id'], a KeyError when the file
\* held a mapping without that key.
Heartbeat(p, working_on) ==
    LET session == UpdateSessionHeartbeat(p, working_on)
    IN  /\ inflight[p] = None /\ CanDraw(p)
        /\ sessions' = [sessions EXCEPT ![p] = Some(session)]
        /\ last' = Outcome("heartbeat", "", FALSE, session.session_id # None,
                           IF session.session_id # None THEN "" ELSE "KeyError",
                           <<session>>)
        /\ query' = Some(<<p, working_on>>)
        /\ UNCHANGED <<worktrees, persisted, now, inflight, marker>>

\* A call of is_session_stale(session_id, staleness_minutes).
CheckSessionStale(sid, staleness_minutes) ==
    /\ last' = Outcome("is_session_stale", "", FALSE,
                       IsSessionStaleAfter(sid, staleness_minutes), "", <<>>)
    /\ query' = Some(<<sid, staleness_minutes>>)
    /\ UNCHANGED <<worktrees, persisted, sessions, now, inflight, marker>>

\* The session file of p is removed, truncated or edited by something other
\* than these scripts.
DamageSession(p, content) ==
    /\ sessions[p] # None
    /\ sessions' = [sessions EXCEPT ![p] = content]
    /\ UNCHANGED <<worktrees, persisted, now, inflight, last, query, marker>>

\* What is left of a session file after such damage: nothing, an empty file,
\* the record without last_activity, with an unreadable one, without its id.
Damaged(p) ==
    IF sessions[p] = None THEN {}
    ELSE {None, Some(EmptySession),
          Some([sessions[p][1] EXCEPT !.last_activity = None]),
          Some([sessions[p][1] EXCEPT !.last_activity = Some(Malformed)]),
          Some([sessions[p][1] EXCEPT !.session_id = None])}

\* ------------------------------------------------------------ add_claim
\* Mutant of AddClaimReject: --force also overrides the claim the cc_id
\* already holds.
AddClaimReject_ForceTakesOver(data, cc_id, plan, feature, force, depsOk) ==
    IF cc_id = MainBranch THEN "main"
    ELSE IF FindByCcId(data.claims, cc_id) # None /\ ~force THEN "already_claimed"
    ELSE IF TruthyInt(plan) /\ ~depsOk /\ ~force THEN "dependencies"
    ELSE IF TruthyStr(feature) /\ feature[1] \notin ValidFeatures
    THEN "unknown_feature"
    ELSE IF CheckScopeConflict(plan, feature, data.claims) # <<>> /\ ~force
    THEN "conflict"
    ELSE ""

\* Mutant of AddClaimReject: no check for a claim the cc_id already holds.
AddClaimReject_NoExistingCheck(data, cc_id, plan, feature, force, depsOk) ==
    IF cc_id = MainBranch THEN "main"
    ELSE IF TruthyInt(plan) /\ ~depsOk /\ ~force THEN "dependencies"
    ELSE IF TruthyStr(feature) /\ feature[1] \notin ValidFeatures
    THEN "unknown_feature"
    ELSE IF CheckScopeConflict(plan, feature, data.claims) # <<>> /\ ~force
    THEN "conflict"
    ELSE ""

\* Mutant of AddClaimReject: a conflict is printed and never returned on.
AddClaimReject_NoConflictReturn(data, cc_id, plan, feature, force, depsOk) ==
    IF cc_id = MainBranch THEN "main"
    ELSE IF FindByCcId(data.claims, cc_id) # None THEN "already_claimed"
    ELSE IF TruthyInt(plan) /\ ~depsOk /\ ~force THEN "dependencies"
    ELSE IF TruthyStr(feature) /\ feature[1] \notin ValidFeatures
    THEN "unknown_feature"
    ELSE ""

\* Mutant of AddClaimReject: a conflict returns whether or not --force is given.
AddClaimReject_ForceIgnored(data, cc_id, plan, feature, force, depsOk) ==
    IF cc_id = MainBranch THEN "main"
    ELSE IF FindByCcId(data.claims, cc_id) # None THEN "already_claimed"
    ELSE IF TruthyInt(plan) /\ ~depsOk /\ ~force THEN "dependencies"
    ELSE IF TruthyStr(feature) /\ feature[1] \notin ValidFeatures
    THEN "unknown_feature"
    ELSE IF CheckScopeConflict(plan, feature, data.claims) # <<>>
    THEN "conflict"
    ELSE ""

\* What add_claim decides on the data it was given: the reason it returns
\* False for, or "" when it goes on to write the claim.
\* Mutant of AddClaimReject: force also overrides the feature registry.
AddClaimReject_ForceSkipsRegistry(data, cc_id, plan, feature, force, depsOk) ==
    IF cc_id = MainBranch THEN "main"
    ELSE IF FindByCcId(data.claims, cc_id) # None THEN "already_claimed"
    ELSE IF TruthyInt(plan) /\ ~depsOk /\ ~force THEN "dependencies"
    ELSE IF TruthyStr(feature) /\ feature[1] \notin ValidFeatures /\ ~force
    THEN "unknown_feature"
    ELSE IF CheckScopeConflict(plan, feature, data.claims) # <<>> /\ ~force
    THEN "conflict"
    ELSE ""

AddClaimReject(data, cc_id, plan, feature, force, depsOk) ==
    IF cc_id = MainBranch THEN "main"
    ELSE IF FindByCcId(data.claims, cc_id) # None THEN "already_claimed"
    ELSE IF TruthyInt(plan) /\ ~depsOk /\ ~force THEN "dependencies"
    ELSE IF TruthyStr(feature) /\ feature[1] \notin ValidFeatures
    THEN "unknown_feature"
    ELSE IF CheckScopeConflict(plan, feature, data.claims) # <<>> /\ ~force
    THEN "conflict"
    ELSE ""

\* The conflicts add_claim prints: none on the returns that precede the
\* conflict check.
AddClaimReported(data, cc_id, plan, feature, force, depsOk) ==
    IF AddClaimReject(data, cc_id, plan, feature, force, depsOk)
         \in {"main", "already_claimed", "dependencies", "unknown_feature"}
    THEN <<>>
    ELSE IdsOf(CheckScopeConflict(plan, feature, data.claims))

\* Mutant of DoAddClaimFiles: the ledger entry does not record the worktree.
DoAddClaimFiles_NoWorktreePath(data, p, cc_id, plan, feature, files, force, depsOk) ==
    LET reject == AddClaimReject(data, cc_id, plan, feature, force, depsOk)
        reported == AddClaimReported(data, cc_id, plan, feature, force, depsOk)
        sid == SessionIdOf(p)
        wt_path == FindWorktreeForBranch(cc_id)
    IN  /\ last' = Outcome("claim", cc_id, force, reject = "", reject, reported)
        /\ query' = None
        /\ IF reject # ""
           THEN /\ UNCHANGED <<persisted, sessions>>
           ELSE /\ sessions' = SessionsAfterGet(p)
                /\ claimFile' = IF wt_path # None
                                THEN [claimFile EXCEPT ![cc_id] =
                                        Some(ClaimData(cc_id, plan, feature, sid, now))]
                                ELSE claimFile
                /\ ledgerFault' = NoFault
                /\ ledgerClaims' = data.claims \o <<ClaimData(cc_id, plan, feature, sid, now)>>
                /\ ledgerCompleted' = data.completed

\* add_claim on `data`, run by process p now, with its files argument.
DoAddClaimFiles(data, p, cc_id, plan, feature, files, force, depsOk) ==
    LET reject == AddClaimReject(data, cc_id, plan, feature, force, depsOk)
        reported == AddClaimReported(data, cc_id, plan, feature, force, depsOk)
        sid == SessionIdOf(p)
        wt_path == FindWorktreeForBranch(cc_id)
        new_claim == [ClaimData(cc_id, plan, feature, sid, now)
                        EXCEPT !.worktree_path = wt_path,
                               !.files = IF TruthyList(files) THEN files ELSE None]
    IN  /\ last' = Outcome("claim", cc_id, force, reject = "", reject, reported)
        /\ query' = None
        /\ IF reject # ""
           THEN /\ UNCHANGED <<persisted, sessions>>
           ELSE /\ sessions' = SessionsAfterGet(p)
                /\ claimFile' = IF wt_path # None
                                THEN [claimFile EXCEPT ![cc_id] =
                                        Some(ClaimData(cc_id, plan, feature, sid, now))]
                                ELSE claimFile
                /\ ledgerFault' = NoFault
                /\ ledgerClaims' = data.claims \o <<new_claim>>
                /\ ledgerCompleted' = data.completed

\* add_claim as main calls it: files is left at its default, None.
DoAddClaim(data, p, cc_id, plan, feature, force, depsOk) ==
    DoAddClaimFiles(data, p, cc_id, plan, feature, None, force, depsOk)

\* add_claim(data, cc_id, task, plan, feature, files, force) called with a
\* list of files.
AddClaimWithFiles(p, cc_id, plan, feature, files, force, depsOk) ==
    /\ inflight[p] = None
    /\ DoAddClaimFiles(LoadYaml, p, cc_id, plan, feature, files, force, depsOk)
    /\ UNCHANGED <<worktrees, now, inflight, marker>>

\* python scripts/check_claims.py --claim [--id cc_id] [--plan N] [--feature F] [--force]
AddClaim(p, cc_id, plan, feature, force, depsOk) ==
    /\ inflight[p] = None
    /\ DoAddClaim(LoadYaml, p, cc_id, plan, feature, force, depsOk)
    /\ UNCHANGED <<worktrees, now, inflight, marker>>

\* add_claim when the worktree of cc_id exists but its .claim.yaml cannot be
\* written (save_claim_to_worktree catches OSError and returns False): a
\* warning is printed and the claim goes to the ledger alone, without
\* worktree_path.
AddClaimUnwritable(p, cc_id, plan, feature, force, depsOk) ==
    LET data == LoadYaml
        reject == AddClaimReject(data, cc_id, plan, feature, force, depsOk)
        reported == AddClaimReported(data, cc_id, plan, feature, force, depsOk)
    IN  /\ inflight[p] = None
        /\ FindWorktreeForBranch(cc_id) # None
        /\ last' = Outcome("claim", cc_id, force, reject = "", reject, reported)
        /\ query' = None
        /\ IF reject # ""
           THEN UNCHANGED <<persisted, sessions>>
           ELSE /\ sessions' = SessionsAfterGet(p)
                /\ ledgerFault' = NoFault
                /\ ledgerClaims' =
                     data.claims \o <<ClaimData(cc_id, plan, feature, SessionIdOf(p), now)>>
                /\ ledgerCompleted' = data.completed
                /\ UNCHANGED claimFile
        /\ UNCHANGED <<worktrees, now, inflight, marker>>

\* ------------------------------------------------------------ release_claim
Completion(cc_id, plan, task, at, reason) ==
    [cc_id |-> cc_id, plan |-> plan, task |-> task, completed_at |-> at,
     reason |-> reason]

\* The record of a branch cleaned up as merged before the behaviours start.
EarlierRecord ==
    Completion("old", None, Some(TheTask), StrftimeZ(0), Some("branch_merged"))

\* The histories explored: at most MaxCompleted records are appended to the
\* earlier ones.
HistoryRoom(n) ==
    Len(SelectSeq(ledgerCompleted, LAMBDA c : c # EarlierRecord)) + n <= MaxCompleted

\* Mutant of ReleaseReject: no ownership verification.
ReleaseReject_NoOwnership(data, p, cc_id, force, validateFails) ==
    LET found == FindByCcId(data.claims, cc_id)
    IN  IF found = None THEN "no_claim"
        ELSE IF validateFails /\ TruthyInt(found[1].plan) /\ ~force
        THEN "validation"
        ELSE ""

ReleaseReject(data, p, cc_id, force, validateFails) ==
    LET found == FindByCcId(data.claims, cc_id)
    IN  IF found = None THEN "no_claim"
        ELSE IF /\ found[1].session_id \in SessionIds /\ ~force
                /\ found[1].session_id # SessionIdOf(p)
                /\ ~IsSessionStale(found[1].session_id)
        THEN "ownership"
        ELSE IF validateFails /\ TruthyInt(found[1].plan) /\ ~force
        THEN "validation"
        ELSE ""

\* python scripts/check_claims.py --release [--id cc_id] [--force] [--validate]
ReleaseClaim(p, cc_id, force, validateFails) ==
    LET data == LoadYaml
        found == FindByCcId(data.claims, cc_id)
        reject == ReleaseReject(data, p, cc_id, force, validateFails)
    IN  /\ inflight[p] = None
        /\ reject = "" => HistoryRoom(1)
        /\ last' = Outcome("release", cc_id, force, reject = "", reject, <<>>)
        /\ query' = None
        \* get_session_id() runs whenever the claim carries a session id and
        \* force is not given, before the ownership decision.
        /\ sessions' = IF found # None /\ found[1].session_id \in SessionIds /\ ~force
                       THEN SessionsAfterGet(p) ELSE sessions
        /\ IF reject # ""
           THEN UNCHANGED persisted
           ELSE /\ ledgerFault' = NoFault
                /\ ledgerClaims' = RemoveFirst(data.claims, found[1])
                /\ ledgerCompleted' =
                       LastN(data.completed \o
                               <<Completion(cc_id, found[1].plan, Some(found[1].task),
                                            StrftimeZ(now), None)>>,
                             KeepRelease)
                /\ UNCHANGED claimFile
        /\ UNCHANGED <<worktrees, now, inflight, marker>>

\* ------------------------------------------------- interleaved claim requests
\* A claim request has two file accesses: main() loads the data (load_yaml),
\* add_claim later writes the claim file and the whole ledger.  Another
\* process may run between the two.
BeginClaim(p, cc_id, plan, feature, force, depsOk) ==
    /\ inflight[p] = None
    /\ inflight' = [inflight EXCEPT ![p] =
                      Some([cc_id |-> cc_id, plan |-> plan, feature |-> feature,
                            force |-> force, depsOk |-> depsOk, data |-> LoadYaml])]
    /\ UNCHANGED <<worktrees, persisted, sessions, now, last, query, marker>>

FinishClaim(p) ==
    /\ inflight[p] # None
    /\ LET r == inflight[p][1]
       IN  DoAddClaim(r.data, p, r.cc_id, r.plan, r.feature, r.force, r.depsOk)
    /\ inflight' = [inflight EXCEPT ![p] = None]
    /\ UNCHANGED <<worktrees, now, marker>>

\* ------------------------------------------------------------ --check-conflict
\* python scripts/check_claims.py --check-conflict [--plan N] [--feature F]
\* The outcome lists the conflicting claims themselves.
CheckConflict(plan, feature) ==
    LET conflicts == CheckScopeConflict(plan, feature, LoadYaml.claims)
    IN  /\ last' = IF ~TruthyInt(plan) /\ ~TruthyStr(feature)
                   THEN Outcome("check_conflict", "", FALSE, FALSE, "no_scope", <<>>)
                   ELSE Outcome("check_conflict", "", FALSE, conflicts = <<>>,
                                IF conflicts = <<>> THEN "" ELSE "conflict", conflicts)
        /\ query' = Some(<<plan, feature>>)
        /\ UNCHANGED <<worktrees, persisted, sessions, now, inflight, marker>>

\* ------------------------------------------------------------ --write-claim-file
\* python scripts/check_claims.py --write-claim-file PATH --task T [--id cc_id] ...
WriteClaimFile(p, path, cc_id, plan, feature, force) ==
    LET conflicts == CheckScopeConflict(plan, feature, LoadYaml.claims)
        blocked == conflicts # <<>> /\ ~force
    IN  /\ inflight[p] = None
        /\ last' = Outcome("write_claim_file", path, force,
                           ~blocked /\ PathExists(path),
                           IF blocked THEN "conflict"
                           ELSE IF PathExists(path) THEN "" ELSE "write_failed",
                           IF blocked THEN IdsOf(conflicts) ELSE <<>>)
        /\ query' = None
        \* save_claim_to_worktree asks for the session id before it opens the file
        /\ sessions' = IF blocked THEN sessions ELSE SessionsAfterGet(p)
        /\ claimFile' = IF ~blocked /\ PathExists(path)
                        THEN [claimFile EXCEPT ![path] =
                                Some(ClaimData(cc_id, plan, feature, SessionIdOf(p), now))]
                        ELSE claimFile
        /\ UNCHANGED <<worktrees, ledgerClaims, ledgerCompleted, ledgerFault, now, inflight, marker>>

\* ------------------------------------------------------------ --list
\* python scripts/check_claims.py --list: the claims load_yaml returned.
ListClaims(p) ==
    /\ inflight[p] = None
    /\ last' = Outcome("list", "", FALSE, TRUE, "", LoadYaml.claims)
    /\ query' = None
    /\ UNCHANGED <<worktrees, persisted, sessions, now, inflight, marker>>

\* ------------------------------------------------------------ cleanups
RECURSIVE SelectClaims(_, _)
SelectClaims(claims, ids) ==
    IF claims = <<>> THEN <<>>
    ELSE (IF Head(claims).cc_id \in ids THEN <<Head(claims)>> ELSE <<>>)
         \o SelectClaims(Tail(claims), ids)

RECURSIVE MergedCompletions(_)
MergedCompletions(claims) ==
    IF claims = <<>> THEN <<>>
    ELSE <<Completion(Head(claims).cc_id, Head(claims).plan, Some(Head(claims).task),
                      StrftimeZ(now), Some("branch_merged"))>>
         \o MergedCompletions(Tail(claims))

\* python scripts/check_claims.py --cleanup-merged; merged_branches is what
\* `git branch -r --merged origin/main` lists.
CleanupMerged(p, merged_branches) ==
    LET data == LoadYaml
        cleaned == SelectClaims(data.claims, merged_branches)
        kept == SelectClaims(data.claims, CcIds(data.claims) \ merged_branches)
    IN  /\ inflight[p] = None
        /\ HistoryRoom(Len(cleaned))
        /\ last' = Outcome("cleanup_merged", "", FALSE, TRUE, "", IdsOf(cleaned))
        /\ query' = None
        /\ IF cleaned = <<>>
           THEN UNCHANGED persisted
           ELSE /\ ledgerFault' = NoFault
                /\ ledgerClaims' = kept
                /\ ledgerCompleted' =
                     LastN(data.completed \o MergedCompletions(cleaned), KeepCleanup)
                /\ UNCHANGED claimFile
        /\ UNCHANGED <<worktrees, sessions, now, inflight, marker>>

\* Mutant of IsOrphaned: only a claim without worktree_path is orphaned.
IsOrphaned_PathlessOnly(claim) == claim.worktree_path = None

\* cleanup_orphaned_claims: no worktree_path, or a path that does not exist.
IsOrphaned(claim) ==
    claim.worktree_path = None \/ ~PathExists(claim.worktree_path[1])

RECURSIVE OrphanedOf(_)
OrphanedOf(claims) ==
    IF claims = <<>> THEN <<>>
    ELSE (IF IsOrphaned(Head(claims)) THEN <<Head(claims)>> ELSE <<>>)
         \o OrphanedOf(Tail(claims))

RECURSIVE RemainingOf(_)
RemainingOf(claims) ==
    IF claims = <<>> THEN <<>>
    ELSE (IF IsOrphaned(Head(claims)) THEN <<>> ELSE <<Head(claims)>>)
         \o RemainingOf(Tail(claims))

RECURSIVE OrphanCompletions(_)
OrphanCompletions(ids) ==
    IF ids = <<>> THEN <<>>
    ELSE <<Completion(Head(ids), None, None, IsoFormat(now),
                      Some("auto_released_orphaned"))>>
         \o OrphanCompletions(Tail(ids))

\* python scripts/check_claims.py --cleanup-orphaned [--dry-run]
\* Mutant of CleanupOrphaned: --dry-run is ignored.
CleanupOrphaned_DryWrites(p, dry_run) ==
    LET data == LoadYaml
        cleaned_ids == IdsOf(OrphanedOf(data.claims))
    IN  /\ inflight[p] = None
        /\ HistoryRoom(Len(cleaned_ids))
        /\ last' = Outcome(IF dry_run THEN "cleanup_orphaned_dry" ELSE "cleanup_orphaned",
                           "", FALSE, TRUE, "", cleaned_ids)
        /\ query' = None
        /\ IF cleaned_ids = <<>>
           THEN UNCHANGED persisted
           ELSE /\ ledgerFault' = NoFault
                /\ ledgerClaims' = RemainingOf(data.claims)
                /\ ledgerCompleted' =
                     LastN(data.completed \o OrphanCompletions(cleaned_ids), KeepCleanup)
                /\ UNCHANGED claimFile
        /\ UNCHANGED <<worktrees, sessions, now, inflight, marker>>

CleanupOrphaned(p, dry_run) ==
    LET data == LoadYaml
        cleaned_ids == IdsOf(OrphanedOf(data.claims))
    IN  /\ inflight[p] = None
        /\ ~dry_run => HistoryRoom(Len(cleaned_ids))
        /\ last' = Outcome(IF dry_run THEN "cleanup_orphaned_dry" ELSE "cleanup_orphaned",
                           "", FALSE, TRUE, "", cleaned_ids)
        /\ query' = None
        /\ IF cleaned_ids = <<>> \/ dry_run
           THEN UNCHANGED persisted
           ELSE /\ ledgerFault' = NoFault
                /\ ledgerClaims' = RemainingOf(data.claims)
                /\ ledgerCompleted' =
                     LastN(data.completed \o OrphanCompletions(cleaned_ids), KeepCleanup)
                /\ UNCHANGED claimFile
        /\ UNCHANGED <<worktrees, sessions, now, inflight, marker>>

\* Mutant of IsClaimStale: a worktree modified exactly max_hours ago is stale.
IsClaimStale_Inclusive(claim, max_hours, last_modified) ==
    \/ claim.worktree_path = None
    \/ ~PathExists(claim.worktree_path[1])
    \/ last_modified = None
    \/ Minutes(now) - Minutes(last_modified[1]) >= max_hours * 60

\* is_claim_stale; last_modified is what get_worktree_last_modified found for
\* the claim's worktree (None: it could not tell), in ticks.
IsClaimStale(claim, max_hours, last_modified) ==
    \/ claim.worktree_path = None
    \/ ~PathExists(claim.worktree_path[1])
    \/ last_modified = None
    \/ Minutes(now) - Minutes(last_modified[1]) > max_hours * 60

RECURSIVE StaleOf(_, _, _)
StaleOf(claims, max_hours, mtimes) ==
    IF claims = <<>> THEN <<>>
    ELSE LET c == Head(claims)
             lm == IF c.worktree_path = None THEN None ELSE mtimes[c.worktree_path[1]]
         IN  (IF IsClaimStale(c, max_hours, lm) THEN <<c>> ELSE <<>>)
             \o StaleOf(Tail(claims), max_hours, mtimes)

RECURSIVE StaleCompletions(_, _)
StaleCompletions(ids, claims) ==
    IF ids = <<>> THEN <<>>
    ELSE LET c == FindByCcId(claims, Head(ids))[1]
         IN  <<Completion(Head(ids), c.plan, Some(c.task), IsoFormat(now),
                          Some("auto_released_stale"))>>
             \o StaleCompletions(Tail(ids), claims)

\* python scripts/check_claims.py --cleanup-stale [--stale-hours H] [--dry-run]
\* mtimes: branch -> the most recent modification time seen in its worktree.
CleanupStale(p, max_hours, dry_run, mtimes) ==
    LET data == LoadYaml
        stale_ids == IdsOf(StaleOf(data.claims, max_hours, mtimes))
    IN  /\ inflight[p] = None
        /\ ~dry_run => HistoryRoom(Len(stale_ids))
        /\ last' = Outcome(IF dry_run THEN "cleanup_stale_dry" ELSE "cleanup_stale",
                           "", FALSE, TRUE, "", stale_ids)
        /\ query' = None
        /\ IF stale_ids = <<>> \/ dry_run
           THEN UNCHANGED persisted
           ELSE /\ ledgerFault' = NoFault
                /\ ledgerClaims' =
                     SelectClaims(data.claims, CcIds(data.claims) \ SeqRange(stale_ids))
                /\ ledgerCompleted' =
                     LastN(data.completed \o StaleCompletions(stale_ids, data.claims),
                           KeepCleanup)
                /\ UNCHANGED claimFile
        /\ UNCHANGED <<worktrees, sessions, now, inflight, marker>>

\* parse_timestamp: strptime with "%Y-%m-%dT%H:%M:%SZ" and four shorter
\* formats; the output of datetime.isoformat() (microseconds, "+00:00")
\* matches none of them.
ParseTimestamp(ts) == IF ts.fmt = "Z" THEN Some(ts.t) ELSE None

\* cleanup_old_completed(data, hours): the records it keeps.
CleanupOldCompleted(completed, hours) ==
    SelectSeq(completed,
              LAMBDA c : LET ts == ParseTimestamp(c.completed_at)
                         IN  ts = None \/ Minutes(now) - Minutes(ts[1]) <= hours * 60)

\* python scripts/check_claims.py --cleanup
Cleanup(p) ==
    LET data == LoadYaml
        kept == CleanupOldCompleted(data.completed, RetentionHours)
        removed == Len(data.completed) - Len(kept)
    IN  /\ inflight[p] = None
        /\ last' = Outcome("cleanup", "", FALSE, TRUE, "", <<removed>>)
        /\ query' = None
        /\ IF removed > 0
           THEN /\ ledgerFault' = NoFault
                /\ ledgerClaims' = data.claims
                /\ ledgerCompleted' = kept
                /\ UNCHANGED claimFile
           ELSE UNCHANGED persisted
        /\ UNCHANGED <<worktrees, sessions, now, inflight, marker>>

\* ------------------------------------------------------------ environment
\* Tick with a hard lease: the claims of the ledger lapse when time passes.
Tick_Lapses ==
    /\ now < MaxTicks
    /\ now' = now + 1
    /\ ledgerClaims' = <<>>
    /\ UNCHANGED <<worktrees, claimFile, ledgerCompleted, ledgerFault, sessions,
                   inflight, last, query, marker>>

Tick ==
    /\ now < MaxTicks
    /\ now' = now + 1
    /\ UNCHANGED <<worktrees, persisted, sessions, inflight, last, query, marker>>

\* git worktree add: a fresh directory, without a claim file.
CreateWorktree(b) ==
    /\ b \notin worktrees
    /\ worktrees' = worktrees \cup {b}
    /\ claimFile' = [claimFile EXCEPT ![b] = None]
    /\ marker' = [marker EXCEPT ![b] = None]
    /\ UNCHANGED <<ledgerClaims, ledgerCompleted, ledgerFault, sessions, now, inflight, last, query>>

\* git worktree remove [--force]: the directory and its claim file are gone.
RemoveWorktree(b) ==
    /\ b \in worktrees
    /\ worktrees' = worktrees \ {b}
    /\ claimFile' = [claimFile EXCEPT ![b] = None]
    /\ marker' = [marker EXCEPT ![b] = None]
    /\ UNCHANGED <<ledgerClaims, ledgerCompleted, ledgerFault, sessions, now, inflight, last, query>>

\* Time passes: `ticks` clock steps at once.
Wait(ticks) ==
    /\ now < MaxTicks
    /\ now' = now + ticks
    /\ UNCHANGED <<worktrees, persisted, sessions, inflight, last, query, marker>>

\* ------------------------------------------------------------ removal guard
\* scripts/safe_worktree_remove.py
SESSION_STALENESS_HOURS == 24

\* A path as the string of its characters: the directory of the worktree of
\* branch b is w/b.
Dir(b) == <<"w", "/", b>>
\* str.startswith
StartsWith(s, prefix) ==
    Len(s) >= Len(prefix) /\ SubSeq(s, 1, Len(prefix)) = prefix

\* A hook outside this repository's scripts writes the session marker of a
\* worktree; `content` is the text it holds.
WriteMarker(b, content) ==
    /\ b \in worktrees
    /\ marker' = [marker EXCEPT ![b] = Some(content)]
    /\ UNCHANGED <<worktrees, persisted, sessions, now, inflight, last, query>>

\* Mutant of HasUncommittedChanges: never any.
HasUncommittedChanges_Never(status) == FALSE

\* What `git status --porcelain` meets in the worktree: whether it runs (exit
\* code 0) and whether the worktree holds uncommitted modifications.
StatusInputs ==
    {[ran |-> TRUE, modified |-> FALSE], [ran |-> TRUE, modified |-> TRUE],
     [ran |-> FALSE, modified |-> TRUE]}

\* has_uncommitted_changes: False when git status fails, else whether it
\* printed anything.
HasUncommittedChanges(status) == status.ran /\ status.modified

\* Mutant of IsBranchMerged: every branch counts as merged.
IsBranchMerged_Always(branch, merged) == TRUE

\* is_branch_merged: merged is the set of branches that the remote's merged
\* list or the merged PRs name.
IsBranchMerged(branch, merged) == branch \in merged

\* Where the caller's shell is: what `git rev-parse --abbrev-ref HEAD` answers
\* there ("" when it fails), the directory's name and its path.  The main
\* checkout, a subdirectory of the worktree, and a directory outside any
\* checkout that bears the worktree's name.
Locs(wt) ==
    {[branch |-> MainBranch, cwd |-> "repo", path |-> <<"r">>],
     [branch |-> wt, cwd |-> "s", path |-> Dir(wt) \o <<"/", "s">>],
     [branch |-> "", cwd |-> wt, path |-> <<"t", "/", wt>>]}

\* Mutant of Identity: the directory name is not part of the identity.
Identity_BranchOnly(loc) == [branch |-> loc.branch, cwd |-> ""]

\* get_current_cc_identity
Identity(loc) == [branch |-> loc.branch, cwd |-> loc.cwd]

\* check_worktree_claimed: the first claim of the ledger file whose
\* worktree_path is the worktree's path.
RECURSIVE CheckWorktreeClaimedIn(_, _)
CheckWorktreeClaimedIn(claims, wt) ==
    IF claims = <<>> THEN None
    ELSE IF Head(claims).worktree_path = Some(wt) THEN Some(Head(claims))
    ELSE CheckWorktreeClaimedIn(Tail(claims), wt)

\* check_worktree_claimed: a ledger that is not valid YAML counts as one
\* without claims (yaml.YAMLError is caught).
CheckWorktreeClaimed(wt) ==
    IF ledgerFault = "malformed" THEN None
    ELSE CheckWorktreeClaimedIn(ledgerClaims, wt)

\* check_processes_using_worktree: procs are the live processes, me the pid
\* of the caller.
CheckProcessesUsingWorktree(wt, has_psutil, procs, me) ==
    IF ~has_psutil THEN {}
    ELSE {pr \in procs : StartsWith(pr.cwd, Dir(wt)) /\ pr.pid # me}

\* check_session_marker_recent: content is [parses, t]: whether
\* datetime.fromisoformat accepts the text, and the minute it names.
CheckSessionMarkerRecent(wt) ==
    /\ marker[wt] # None
    /\ marker[wt][1].parses
    /\ Minutes(now) - marker[wt][1].t < SESSION_STALENESS_HOURS * 60

Verdict(block, reason, info) == [block |-> block, reason |-> reason, info |-> info]

\* Mutant of NoClaimVerdict: force does not lift the process block.
NoClaimVerdict_ForceIgnored(wt, force, env, claim_info) ==
    LET processes_using == CheckProcessesUsingWorktree(wt, env.has_psutil, env.procs, env.me)
    IN  IF CheckSessionMarkerRecent(wt) /\ ~force
        THEN Verdict(TRUE, "session_marker", Some([marker_time |-> marker[wt][1].t]))
        ELSE IF processes_using # {}
        THEN Verdict(TRUE, "process", Some([processes |-> processes_using]))
        ELSE Verdict(FALSE, "", claim_info)

\* should_block_removal past the claim check: session marker, processes,
\* and the final return.
NoClaimVerdict(wt, force, env, claim_info) ==
    LET processes_using == CheckProcessesUsingWorktree(wt, env.has_psutil, env.procs, env.me)
    IN  IF CheckSessionMarkerRecent(wt) /\ ~force
        THEN Verdict(TRUE, "session_marker", Some([marker_time |-> marker[wt][1].t]))
        ELSE IF processes_using # {} /\ ~force
        THEN Verdict(TRUE, "process", Some([processes |-> processes_using]))
        ELSE Verdict(FALSE, "", claim_info)

\* should_block_removal.  env holds what the commands it runs answer:
\* loc (where the caller's shell is), wt_branch (git branch --show-current in
\* the worktree, None when it fails), merged, status, has_psutil, procs, me.
ShouldBlockRemovalVerdict(wt, force, env) ==
    LET my_identity == Identity(env.loc)
        claim_info == CheckWorktreeClaimed(wt)
        claim_owner == claim_info[1].cc_id
        is_mine == /\ claim_owner # ""
                   /\ (claim_owner = my_identity.branch \/ claim_owner = my_identity.cwd)
    IN  IF claim_info # None /\ ~force
        THEN IF ~is_mine
             THEN IF /\ TruthyStr(env.wt_branch)
                     /\ IsBranchMerged(env.wt_branch[1], env.merged)
                     /\ ~HasUncommittedChanges(env.status)
                  THEN Verdict(FALSE, "merged_safe", claim_info)
                  ELSE Verdict(TRUE, "ownership", claim_info)
             ELSE Verdict(TRUE, "claim", claim_info)
        ELSE NoClaimVerdict(wt, force, env, claim_info)

\* Mutant of AutoReleased: the record is appended and the claims are kept.
AutoReleased_KeepsClaims(cc_id) ==
    LET new_claims == SelectSeq(ledgerClaims, LAMBDA c : c.cc_id # cc_id)
    IN  IF Len(new_claims) < Len(ledgerClaims)
        THEN [claims |-> ledgerClaims,
              completed |-> ledgerCompleted \o
                  <<Completion(cc_id, None, None, IsoFormat(now),
                               Some("auto_released_merged_pr"))>>]
        ELSE [claims |-> ledgerClaims, completed |-> ledgerCompleted]

\* Mutant of AutoReleased: the claims are removed and no record is appended.
AutoReleased_NoRecord(cc_id) ==
    [claims |-> SelectSeq(ledgerClaims, LAMBDA c : c.cc_id # cc_id),
     completed |-> ledgerCompleted]

\* release_claim of safe_worktree_remove.py: the ledger file without the
\* claims of cc_id and, when there was one, with one more completed record.
AutoReleased(cc_id) ==
    LET new_claims == SelectSeq(ledgerClaims, LAMBDA c : c.cc_id # cc_id)
    IN  IF Len(new_claims) < Len(ledgerClaims)
        THEN [claims |-> new_claims,
              completed |-> ledgerCompleted \o
                  <<Completion(cc_id, None, None, IsoFormat(now),
                               Some("auto_released_merged_pr"))>>]
        ELSE [claims |-> ledgerClaims, completed |-> ledgerCompleted]

\* Mutant of ShouldBlockRemoval: the guard itself releases the claim when its
\* verdict is merged_safe.
ShouldBlockRemoval_Releasing(wt, force, env) ==
    LET v == ShouldBlockRemovalVerdict(wt, force, env)
        released == AutoReleased(v.info[1].cc_id)
    IN  /\ wt \in worktrees
        /\ last' = Outcome("guard", wt, force, ~v.block, v.reason, v.info)
        /\ query' = Some(env)
        /\ UNCHANGED ledgerFault
        /\ ledgerClaims' = IF v.reason = "merged_safe" THEN released.claims
                           ELSE ledgerClaims
        /\ ledgerCompleted' = IF v.reason = "merged_safe" THEN released.completed
                              ELSE ledgerCompleted
        /\ UNCHANGED <<worktrees, claimFile, sessions, now, inflight, marker>>

\* A call of should_block_removal: it returns the verdict.
ShouldBlockRemoval(wt, force, env) ==
    LET v == ShouldBlockRemovalVerdict(wt, force, env)
    IN  /\ wt \in worktrees
        /\ last' = Outcome("guard", wt, force, ~v.block, v.reason, v.info)
        /\ query' = Some(env)
        /\ UNCHANGED <<worktrees, persisted, sessions, now, inflight, marker>>

\* os.getcwd()
CwdOf(loc) == loc.path

\* Why remove_worktree returns False ("" when it removes the worktree).
\* git_ok: whether `git worktree remove` (retried with --force under force)
\* succeeds.
RemoveRefusal(wt, force, env, git_ok) ==
    LET v == ShouldBlockRemovalVerdict(wt, force, env)
    IN  IF ~PathExists(wt) THEN "missing"
        ELSE IF StartsWith(CwdOf(env.loc), Dir(wt)) THEN "inside"
        ELSE IF v.block THEN v.reason
        ELSE IF HasUncommittedChanges(env.status) /\ ~force THEN "uncommitted"
        ELSE IF ~git_ok THEN "git"
        ELSE ""

\* python scripts/safe_worktree_remove.py [--force] <worktree>
SafeRemoveWorktree(wt, force, env, git_ok) ==
    LET v == ShouldBlockRemovalVerdict(wt, force, env)
        refusal == RemoveRefusal(wt, force, env, git_ok)
        auto == /\ refusal \notin {"missing", "inside"}
                /\ ~v.block /\ v.reason = "merged_safe" /\ v.info # None
        released == AutoReleased(v.info[1].cc_id)
    IN  /\ auto => HistoryRoom(1)
        /\ last' = Outcome("remove", wt, force, refusal = "", refusal,
                           IF auto THEN v.info ELSE None)
        /\ query' = None
        /\ UNCHANGED ledgerFault
        /\ ledgerClaims' = IF auto THEN released.claims ELSE ledgerClaims
        /\ ledgerCompleted' = IF auto THEN released.completed ELSE ledgerCompleted
        /\ IF refusal = ""
           THEN /\ worktrees' = worktrees \ {wt}
                /\ claimFile' = [claimFile EXCEPT ![wt] = None]
                /\ marker' = [marker EXCEPT ![wt] = None]
           ELSE UNCHANGED <<worktrees, claimFile, marker>>
        /\ UNCHANGED <<sessions, now, inflight>>

\* ------------------------------------------------------------ finish_pr
\* What finish_pr meets outside the ledger: where it is run from, what
\* `gh pr view` answers, `git status` in the worktree, the process check,
\* and whether `git worktree remove` and `gh pr merge` succeed.
PrAnswers == {"open", "missing", "merged", "closed", "conflicting", "other_branch"}

FinishInputs ==
    [in_worktree : BOOLEAN, pr : PrAnswers, status : StatusInputs,
     in_use : BOOLEAN, remove_ok : BOOLEAN, merge_ok : BOOLEAN]

\* check_worktree_clean: clean when git status fails, else when it printed
\* nothing.
CheckWorktreeClean(status) == ~status.ran \/ ~status.modified

\* validate_finish_preconditions: the errors it collects (as a set of tags).
ValidateFinishPreconditions(branch, fin) ==
    IF fin.in_worktree THEN {"in_worktree"}
    ELSE (IF fin.pr # "open" THEN {fin.pr} ELSE {})
         \cup (IF PathExists(branch) /\ ~CheckWorktreeClean(fin.status)
               THEN {"uncommitted"} ELSE {})
         \cup (IF PathExists(branch) /\ fin.in_use THEN {"in_use"} ELSE {})

\* Where finish_pr stops: "" when it runs to the end.
FinishStop(branch, fin) ==
    IF ValidateFinishPreconditions(branch, fin) # {} THEN "blocked"
    ELSE IF PathExists(branch) /\ ~fin.remove_ok THEN "remove_failed"
    ELSE IF ~fin.merge_ok THEN "merge_failed"
    ELSE ""

\* python scripts/finish_pr.py --branch B --pr N, up to the merge: validation,
\* then the session marker is deleted, the worktree removed, the PR merged.
\* last'.ok is what finish_pr returns (the steps after the merge cannot make
\* it fail).
FinishPr(branch, fin) ==
    LET stop == FinishStop(branch, fin)
    IN  /\ stop = "" => HistoryRoom(1)
        /\ last' = Outcome("finish_pr", branch, FALSE, stop = "", stop, <<>>)
        /\ query' = None
        /\ IF stop = "blocked" \/ ~PathExists(branch)
           THEN UNCHANGED <<worktrees, claimFile, marker>>
           ELSE IF stop = "remove_failed"
           THEN /\ marker' = [marker EXCEPT ![branch] = None]
                /\ UNCHANGED <<worktrees, claimFile>>
           ELSE /\ worktrees' = worktrees \ {branch}
                /\ claimFile' = [claimFile EXCEPT ![branch] = None]
                /\ marker' = [marker EXCEPT ![branch] = None]
        /\ UNCHANGED <<ledgerClaims, ledgerCompleted, ledgerFault, sessions, now, inflight>>

\* finish_pr has merged the PR and has still to release the claim.
FinishPending == last.op = "finish_pr" /\ last.ok

\* finish_pr after the merge: `check_claims.py --release --id B`, without
\* force, run by process p.
FinishPrRelease(p) ==
    /\ FinishPending
    /\ ReleaseClaim(p, last.cc, FALSE, FALSE)

\* ------------------------------------------------------------ damaged ledger
\* The ledger file is overwritten with text that is not YAML, or loses its
\* read permission.
DamageLedger(fault) ==
    /\ ledgerFault = NoFault
    /\ ledgerFault' = fault
    /\ UNCHANGED <<worktrees, claimFile, ledgerClaims, ledgerCompleted, sessions, now,
                   inflight, last, query, marker>>

\* A command ends in a traceback: it has written nothing.
Uncaught(op, error) ==
    /\ last' = Outcome(op, "", FALSE, FALSE, error, <<>>)
    /\ query' = None
    /\ UNCHANGED <<worktrees, persisted, sessions, now, inflight, marker>>

\* main of check_claims.py: load_yaml() runs before the command is looked
\* at, and neither open() nor yaml.safe_load() is inside a try.
Main(op, Handler) ==
    IF ledgerFault = "malformed" THEN Uncaught(op, "YAMLError")
    ELSE IF ledgerFault = "unreadable" THEN Uncaught(op, "PermissionError")
    ELSE Handler

\* safe_worktree_remove.py: check_worktree_claimed reads the ledger inside a
\* try that catches yaml.YAMLError only.
GuardMain(Handler) ==
    IF ledgerFault = "unreadable" THEN Uncaught("guard", "PermissionError")
    ELSE Handler

\* ------------------------------------------------------------ history
NoCycle == [stage |-> 0, cc |-> "", plan |-> None, feature |-> None,
            at |-> 0, ok |-> FALSE, at2 |-> 0]

\* A claim request of `cc` has returned last'.ok: stage 1 after a successful
\* request without force, stage 3 after the request that repeats it once the
\* claim was released (stage 2).
CycleAfterClaim(cc, plan, feature, force, depsOk) ==
    IF /\ cycle.stage = 2 /\ cycle.cc = cc /\ cycle.plan = plan
       /\ cycle.feature = feature /\ ~force /\ depsOk
    THEN [cycle EXCEPT !.stage = 3, !.ok = last'.ok, !.at2 = now]
    ELSE IF last'.ok /\ ~force
    THEN [NoCycle EXCEPT !.stage = 1, !.cc = cc, !.plan = plan,
                         !.feature = feature, !.at = now]
    ELSE NoCycle

CycleAfterRelease(cc) ==
    IF cycle.stage = 1 /\ cycle.cc = cc /\ last'.ok
    THEN [cycle EXCEPT !.stage = 2]
    ELSE NoCycle

NoHistory == UNCHANGED <<cycle, gone, raced>>

Claimed(cc, plan, feature, force, depsOk) ==
    /\ cycle' = CycleAfterClaim(cc, plan, feature, force, depsOk)
    /\ gone' = IF last'.ok THEN gone \ {cc} ELSE gone
    /\ UNCHANGED raced

Released(cc) ==
    /\ cycle' = CycleAfterRelease(cc)
    /\ gone' = IF last'.ok THEN gone \cup {cc} ELSE gone
    /\ UNCHANGED raced

\* A cleanup that was not a dry run has removed the claims it lists.
CleanedUp ==
    /\ cycle' = NoCycle
    /\ gone' = gone \cup SeqRange(last'.ids)
    /\ UNCHANGED raced

\* The request of p writes from the data it loaded: stale if anything it read
\* has changed since.
Raced(p) ==
    /\ raced' = (raced \/ inflight[p][1].data # LoadYaml)
    /\ UNCHANGED <<cycle, gone>>

\* ------------------------------------------------------------ specifications
Init ==
    /\ worktrees = {}
    /\ claimFile = [b \in CcInputs |-> None]
    /\ ledgerClaims = <<>>
    /\ ledgerCompleted = <<>>
    /\ ledgerFault = NoFault
    /\ sessions = [p \in Pids |-> None]
    /\ now = 0
    /\ inflight = [p \in Pids |-> None]
    /\ last = Outcome("none", "", FALSE, TRUE, "", <<>>)
    /\ query = None
    /\ cycle = NoCycle
    /\ gone = {}
    /\ raced = FALSE
    /\ marker = [b \in CcInputs |-> None]

PlanScope == <<Some(5), None>>
FeatureScope == <<None, Some("ledger")>>
BogusScope == <<Some(5), Some("bogus")>>

\* Spec: claim requests (forced or not) and releases by one process, run one
\* at a time, while worktrees come and go.
Next ==
    \/ \E cc \in CcInputs, sc \in {PlanScope, FeatureScope, BogusScope},
          force \in BOOLEAN, depsOk \in BOOLEAN :
          AddClaim(1, cc, sc[1], sc[2], force, depsOk) /\ NoHistory
    \/ \E cc \in CcInputs, force \in BOOLEAN :
          ReleaseClaim(1, cc, force, FALSE) /\ NoHistory
    \/ \E b \in Branches : CreateWorktree(b) /\ NoHistory
    \/ \E b \in Branches : RemoveWorktree(b) /\ NoHistory

Spec == Init /\ [][Next]_vars

\* SpecAll: every command that changes claims, one at a time: claim requests
\* (forced or not), claim files written for a new worktree, releases and the
\* three cleanups, while worktrees come and go.
AllScopes == {PlanScope, FeatureScope}
MtimesOf(mt) == [b \in CcInputs |-> mt]
Mtimes == MtimesOf(Some(0))

NextAll ==
    \/ \E cc \in Branches, force \in BOOLEAN :
          AddClaim(1, cc, PlanScope[1], PlanScope[2], force, TRUE) /\ NoHistory
    \/ \E b \in Branches, force \in BOOLEAN :
          WriteClaimFile(1, b, b, PlanScope[1], PlanScope[2], force) /\ NoHistory
    \/ \E cc \in Branches : ReleaseClaim(1, cc, TRUE, FALSE) /\ NoHistory
    \/ \E merged \in SUBSET Branches : CleanupMerged(1, merged) /\ NoHistory
    \/ CleanupOrphaned(1, FALSE) /\ NoHistory
    \/ \E mt \in {None, Some(0)} :
          CleanupStale(1, DefaultStaleHours, FALSE, MtimesOf(mt)) /\ NoHistory
    \/ \E b \in Branches : CreateWorktree(b) /\ NoHistory
    \/ \E b \in Branches : RemoveWorktree(b) /\ NoHistory

SpecAll == Init /\ [][NextAll]_vars

\* SpecRace: two instances, process 1 on branch "a" and process 2 on branch
\* "b", whose claim requests (without force) may overlap: each loads the data,
\* and writes later from what it loaded.  Claim files for the new worktree "b",
\* releases and cleanups run in between.  Worktrees are created and never
\* removed.
PidCc == [p \in Pids |-> IF p = 1 THEN "a" ELSE "b"]

NextRace ==
    \/ \E p \in Pids, sc \in AllScopes :
          BeginClaim(p, PidCc[p], sc[1], sc[2], FALSE, TRUE) /\ NoHistory
    \/ \E p \in Pids : FinishClaim(p) /\ Raced(p)
    \/ \E sc \in AllScopes :
          WriteClaimFile(2, "b", "b", sc[1], sc[2], FALSE) /\ NoHistory
    \/ \E cc \in Branches : ReleaseClaim(1, cc, TRUE, FALSE) /\ NoHistory
    \/ CleanupMerged(1, Branches) /\ NoHistory
    \/ CleanupOrphaned(1, FALSE) /\ NoHistory
    \/ CleanupStale(1, DefaultStaleHours, FALSE, Mtimes) /\ NoHistory
    \/ \E b \in Branches : CreateWorktree(b) /\ NoHistory

SpecRace == Init /\ [][NextRace]_vars

\* SpecHist: one cc_id claimed, released, cleaned up and claimed again by
\* either process, with the history of what was done to it.
HistCc == "a"

NextHist ==
    \/ \E p \in Pids, force \in BOOLEAN :
          /\ AddClaim(p, HistCc, PlanScope[1], PlanScope[2], force, TRUE)
          /\ Claimed(HistCc, PlanScope[1], PlanScope[2], force, TRUE)
    \/ \E p \in Pids, force \in BOOLEAN :
          ReleaseClaim(p, HistCc, force, FALSE) /\ Released(HistCc)
    \/ \E merged \in SUBSET {HistCc} : CleanupMerged(1, merged) /\ CleanedUp
    \/ CleanupOrphaned(1, FALSE) /\ CleanedUp
    \/ \E max_hours \in {0, DefaultStaleHours} :
          CleanupStale(1, max_hours, FALSE, Mtimes) /\ CleanedUp
    \/ Tick /\ NoHistory
    \/ CreateWorktree(HistCc) /\ NoHistory
    \/ RemoveWorktree(HistCc) /\ NoHistory

SpecHist == Init /\ [][NextHist]_vars

\* SpecConflict: --check-conflict asked about every plan and feature, over
\* every ledger that claim requests can have left (a stored plan or feature is
\* never falsy: add_claim keeps neither 0 nor "").
StoredPlans == {None, Some(5), Some(7)}
StoredFeatures == {None, Some("shared"), Some("ledger")}
StoredClaims(cc) ==
    {ClaimData(cc, plan, feature, 1, 0) :
        plan \in StoredPlans, feature \in StoredFeatures}
ClaimLists ==
    {<<>>}
    \cup {<<c>> : c \in StoredClaims("a") \cup StoredClaims("b")}
    \cup {<<c, d>> : c \in StoredClaims("a"), d \in StoredClaims("b")}
    \cup {<<d, c>> : c \in StoredClaims("a"), d \in StoredClaims("b")}

InitConflict ==
    /\ worktrees = {}
    /\ claimFile = [b \in CcInputs |-> None]
    /\ ledgerClaims \in ClaimLists
    /\ ledgerCompleted = <<>>
    /\ ledgerFault = NoFault
    /\ sessions = [p \in Pids |->
                      IF p = 1
                      THEN Some([session_id |-> Some(1), started_at |-> Some(IsoFormat(0)),
                                 last_activity |-> Some(IsoFormat(0)),
                                 working_on |-> None])
                      ELSE None]
    /\ now = 0
    /\ inflight = [p \in Pids |-> None]
    /\ last = Outcome("none", "", FALSE, TRUE, "", <<>>)
    /\ query = None
    /\ cycle = NoCycle
    /\ gone = {}
    /\ raced = FALSE
    /\ marker = [b \in CcInputs |-> None]

NextConflict ==
    \E plan \in PlanInputs, feature \in FeatureInputs :
        CheckConflict(plan, feature) /\ NoHistory

SpecConflict == InitConflict /\ [][NextConflict]_vars

\* SpecGuard: the removal guard and the removal script on one worktree, whose
\* claim, claim file and session marker come and go.
GuardWt == "a"
\* Marker contents: text that is no timestamp, a timestamp 24 hours before
\* the clock's origin, and one a minute later.
MarkerInputs ==
    {[parses |-> FALSE, t |-> 0]} \cup
    {[parses |-> TRUE, t |-> t] : t \in {0 - SESSION_STALENESS_HOURS * 60,
                                        1 - SESSION_STALENESS_HOURS * 60}}

\* What psutil answers: has_psutil and the other live processes (none, one
\* in the worktree, one in a sibling directory whose name extends the
\* worktree's).
ProcInputs(wt) ==
    {<<FALSE, {[pid |-> 2, cwd |-> Dir(wt)]}>>,
     <<TRUE, {}>>,
     <<TRUE, {[pid |-> 2, cwd |-> Dir(wt)]}>>,
     <<TRUE, {[pid |-> 2, cwd |-> Dir(wt) \o <<"2">>]}>>}

\* What git answers about the worktree's branch: unknown, not merged, merged.
BranchInputs(wt) == {<<None, {}>>, <<Some(wt), {}>>, <<Some(wt), {wt}>>}

GuardEnvs(wt) ==
    {[loc |-> loc, wt_branch |-> br[1], merged |-> br[2], status |-> st,
      has_psutil |-> ps[1], procs |-> ps[2] \cup {[pid |-> 1, cwd |-> CwdOf(loc)]},
      me |-> 1] :
        loc \in Locs(wt), br \in BranchInputs(wt),
        st \in StatusInputs, ps \in ProcInputs(wt)}

NextGuard ==
    \/ AddClaim(1, GuardWt, PlanScope[1], PlanScope[2], FALSE, TRUE) /\ NoHistory
    \/ WriteClaimFile(1, GuardWt, GuardWt, PlanScope[1], PlanScope[2], FALSE) /\ NoHistory
    \/ CreateWorktree(GuardWt) /\ NoHistory
    \/ \E content \in MarkerInputs : WriteMarker(GuardWt, content) /\ NoHistory
    \/ \E force \in BOOLEAN, env \in GuardEnvs(GuardWt) :
          ShouldBlockRemoval(GuardWt, force, env) /\ NoHistory

SpecGuard == Init /\ [][NextGuard]_vars

\* The removal script's inputs: as the guard's, with psutil installed and no
\* process in a sibling directory.
RemoveEnvs(wt) ==
    {env \in GuardEnvs(wt) :
        env.has_psutil /\ \A pr \in env.procs : pr.pid = env.me \/ pr.cwd = Dir(wt)}

\* SpecRemove: every command that takes a claim out of the ledger, the
\* removal script included, on one worktree.
NextRemove ==
    \/ \E force \in BOOLEAN :
          AddClaim(1, GuardWt, PlanScope[1], PlanScope[2], force, TRUE) /\ NoHistory
    \/ \E force \in BOOLEAN : ReleaseClaim(1, GuardWt, force, FALSE) /\ NoHistory
    \/ \E merged \in SUBSET {GuardWt} : CleanupMerged(1, merged) /\ NoHistory
    \/ CleanupOrphaned(1, FALSE) /\ NoHistory
    \/ \E max_hours \in {0, DefaultStaleHours} :
          CleanupStale(1, max_hours, FALSE, Mtimes) /\ NoHistory
    \/ CreateWorktree(GuardWt) /\ NoHistory
    \/ Tick /\ NoHistory
    \/ \E force \in BOOLEAN, env \in RemoveEnvs(GuardWt), git_ok \in BOOLEAN :
          SafeRemoveWorktree(GuardWt, force, env, git_ok) /\ NoHistory

SpecRemove == Init /\ [][NextRemove]_vars

\* SpecSession: the session commands of two processes, the staleness test
\* and damage to the session file of the first.
WorkingOnInputs == {None, Some("Plan #5")}
ThresholdInputs == {STALENESS_MINUTES, TickMinutes}

NextSession ==
    \/ \E p \in Pids : GetSessionId(p) /\ NoHistory
    \/ \E p \in Pids, w \in WorkingOnInputs : Heartbeat(p, w) /\ NoHistory
    \/ \E sid \in SessionIds, t \in ThresholdInputs :
          CheckSessionStale(sid, t) /\ NoHistory
    \/ \E content \in Damaged(1) : DamageSession(1, content) /\ NoHistory
    \/ Tick /\ NoHistory

SpecSession == Init /\ [][NextSession]_vars

\* SpecStale: claims of two branches with and without a worktree, and the
\* stale cleanup under the modification times found in the worktrees: none
\* (activity unknown), just now, exactly 8 hours before the start (12 ticks)
\* and 40 minutes more.
StaleHourInputs == {DefaultStaleHours, DefaultStaleHours + 1}
StaleMtimeInputs ==
    {MtimesOf(None), MtimesOf(Some(0)),
     [MtimesOf(Some(0 - 12)) EXCEPT !["a"] = Some(0 - 13)]}

NextStale ==
    \/ \E cc \in Branches :
          AddClaim(1, cc, PlanScope[1], PlanScope[2], TRUE, TRUE) /\ NoHistory
    \/ \E max_hours \in StaleHourInputs, dry_run \in BOOLEAN, mt \in StaleMtimeInputs :
          CleanupStale(1, max_hours, dry_run, mt) /\ NoHistory
    \/ \E b \in Branches : CreateWorktree(b) /\ NoHistory
    \/ \E b \in Branches : RemoveWorktree(b) /\ NoHistory
    \/ Tick /\ NoHistory

SpecStale == Init /\ [][NextStale]_vars

\* SpecOrphan: claims of two branches made with and without a worktree,
\* worktrees that go away, and the orphan cleanup at different times.
NextOrphan ==
    \/ \E cc \in Branches :
          AddClaim(1, cc, PlanScope[1], PlanScope[2], TRUE, TRUE) /\ NoHistory
    \/ \E dry_run \in BOOLEAN : CleanupOrphaned(1, dry_run) /\ NoHistory
    \/ \E b \in Branches : CreateWorktree(b) /\ NoHistory
    \/ \E b \in Branches : RemoveWorktree(b) /\ NoHistory
    \/ Tick /\ NoHistory

SpecOrphan == Init /\ [][NextOrphan]_vars

\* SpecRoundTrip: add_claim with every kind of scope and files list, for a
\* branch with and without a worktree, and releases.
FilesInputs == {None, Some(<<>>), Some(<<"src/x.py">>)}
RoundTripFeatures == {None, Some("ledger")}

NextRoundTrip ==
    \/ \E plan \in PlanInputs, feature \in RoundTripFeatures, files \in FilesInputs :
          AddClaimWithFiles(1, GuardWt, plan, feature, files, TRUE, TRUE) /\ NoHistory
    \/ ReleaseClaim(1, GuardWt, TRUE, FALSE) /\ NoHistory
    \/ CreateWorktree(GuardWt) /\ NoHistory
    \/ RemoveWorktree(GuardWt) /\ NoHistory

SpecRoundTrip == Init /\ [][NextRoundTrip]_vars

\* SpecList: the first process claims branches, the second writes claim
\* files into worktrees (under the worktree's branch or another cc_id),
\* worktrees come and go, and the claims are listed.
NextList ==
    \/ \E cc \in Branches :
          AddClaim(1, cc, PlanScope[1], PlanScope[2], TRUE, TRUE) /\ NoHistory
    \/ \E path \in Branches, cc \in Branches :
          WriteClaimFile(2, path, cc, FeatureScope[1], FeatureScope[2], TRUE) /\ NoHistory
    \/ ListClaims(1) /\ NoHistory
    \/ \E b \in Branches : CreateWorktree(b) /\ NoHistory
    \/ \E b \in Branches : RemoveWorktree(b) /\ NoHistory

SpecList == Init /\ [][NextList]_vars

\* SpecCap: every command that takes a claim out of the ledger, started with a
\* completed history of 19, 20, 49 or 50 records of earlier merged cleanups.
NearThreshold == {KeepRelease - 1, KeepRelease, KeepCleanup - 1, KeepCleanup}
Filled(n) == [i \in 1..n |-> EarlierRecord]

CapEnvs ==
    {env \in RemoveEnvs(GuardWt) :
        env.status.ran /\ ~env.status.modified /\ env.wt_branch # None}

InitCap ==
    /\ worktrees = {}
    /\ claimFile = [b \in CcInputs |-> None]
    /\ ledgerClaims = <<>>
    /\ ledgerCompleted \in {Filled(n) : n \in NearThreshold}
    /\ ledgerFault = NoFault
    /\ sessions = [p \in Pids |-> None]
    /\ now = 0
    /\ inflight = [p \in Pids |-> None]
    /\ last = Outcome("none", "", FALSE, TRUE, "", <<>>)
    /\ query = None
    /\ cycle = NoCycle
    /\ gone = {}
    /\ raced = FALSE
    /\ marker = [b \in CcInputs |-> None]

NextCap ==
    \/ AddClaim(1, GuardWt, PlanScope[1], PlanScope[2], FALSE, TRUE) /\ NoHistory
    \/ ReleaseClaim(1, GuardWt, TRUE, FALSE) /\ NoHistory
    \/ CleanupMerged(1, {GuardWt}) /\ NoHistory
    \/ CleanupOrphaned(1, FALSE) /\ NoHistory
    \/ CleanupStale(1, DefaultStaleHours, FALSE, MtimesOf(None)) /\ NoHistory
    \/ CreateWorktree(GuardWt) /\ NoHistory
    \/ \E env \in CapEnvs, git_ok \in BOOLEAN :
          SafeRemoveWorktree(GuardWt, FALSE, env, git_ok) /\ NoHistory

SpecCap == InitCap /\ [][NextCap]_vars

\* SpecRetain: every command that takes a claim out of the ledger, a wait of
\* exactly the retention time or one clock step more, and --cleanup.
DayTicks == (RetentionHours * 60) \div TickMinutes

NextRetain ==
    \/ AddClaim(1, GuardWt, PlanScope[1], PlanScope[2], FALSE, TRUE) /\ NoHistory
    \/ ReleaseClaim(1, GuardWt, TRUE, FALSE) /\ NoHistory
    \/ CleanupMerged(1, {GuardWt}) /\ NoHistory
    \/ CleanupOrphaned(1, FALSE) /\ NoHistory
    \/ CleanupStale(1, DefaultStaleHours, FALSE, MtimesOf(None)) /\ NoHistory
    \/ CreateWorktree(GuardWt) /\ NoHistory
    \/ \E env \in CapEnvs, git_ok \in BOOLEAN :
          SafeRemoveWorktree(GuardWt, FALSE, env, git_ok) /\ NoHistory
    \/ \E ticks \in {DayTicks, DayTicks + 1} : Wait(ticks) /\ NoHistory
    \/ Cleanup(1) /\ NoHistory

SpecRetain == Init /\ [][NextRetain]_vars

\* SpecDamage: the commands of the claim tool and the guard on worktree "a"
\* while the ledger file and the first process's session file get damaged.
DamageEnvs == {env \in CapEnvs : env.merged = {}}

NextDamage ==
    \/ \E fault \in LedgerFaults : DamageLedger(fault) /\ NoHistory
    \/ \E content \in Damaged(1) : DamageSession(1, content) /\ NoHistory
    \/ Main("claim", AddClaim(1, GuardWt, PlanScope[1], PlanScope[2], FALSE, TRUE))
          /\ NoHistory
    \/ Main("release", ReleaseClaim(1, GuardWt, TRUE, FALSE)) /\ NoHistory
    \/ Main("list", ListClaims(1)) /\ NoHistory
    \/ Main("cleanup", Cleanup(1)) /\ NoHistory
    \/ Main("cleanup_orphaned", CleanupOrphaned(1, FALSE)) /\ NoHistory
    \/ Main("check_conflict", CheckConflict(PlanScope[1], PlanScope[2])) /\ NoHistory
    \/ Main("heartbeat", Heartbeat(1, None)) /\ NoHistory
    \/ CreateWorktree(GuardWt) /\ NoHistory
    \/ \E env \in DamageEnvs :
          GuardMain(ShouldBlockRemoval(GuardWt, FALSE, env)) /\ NoHistory

SpecDamage == Init /\ [][NextDamage]_vars

\* SpecLease: every lease the tools read (session heartbeat, inactivity
\* window, retention of the history) can run out while time passes, between
\* claims, releases, cleanups and guarded removals on one worktree.
LeaseEnvs == {env \in CapEnvs : env.procs = {[pid |-> 1, cwd |-> CwdOf(env.loc)]}}

NextLease ==
    \/ AddClaim(1, GuardWt, PlanScope[1], PlanScope[2], FALSE, TRUE) /\ NoHistory
    \/ WriteClaimFile(2, GuardWt, GuardWt, FeatureScope[1], FeatureScope[2], FALSE)
          /\ NoHistory
    \/ \E p \in Pids : ReleaseClaim(p, GuardWt, FALSE, FALSE) /\ NoHistory
    \/ \E mt \in StaleMtimeInputs :
          CleanupStale(1, DefaultStaleHours, FALSE, mt) /\ NoHistory
    \/ Cleanup(1) /\ NoHistory
    \/ \E env \in LeaseEnvs :
          SafeRemoveWorktree(GuardWt, FALSE, env, TRUE) /\ NoHistory
    \/ CreateWorktree(GuardWt) /\ NoHistory
    \/ RemoveWorktree(GuardWt) /\ NoHistory
    \/ Tick /\ NoHistory
    \/ Wait(DayTicks + 1) /\ NoHistory

SpecLease == Init /\ [][NextLease]_vars

\* SpecShared: two instances request the feature "shared" without force,
\* one after the other or overlapping, with or without worktrees.
SharedScope == <<None, Some("shared")>>

NextShared ==
    \/ \E p \in Pids :
          BeginClaim(p, PidCc[p], SharedScope[1], SharedScope[2], FALSE, TRUE)
             /\ NoHistory
    \/ \E p \in Pids : FinishClaim(p) /\ Raced(p)
    \/ \E b \in Branches : CreateWorktree(b) /\ NoHistory
    \/ Tick /\ NoHistory

SpecShared == Init /\ [][NextShared]_vars

\* SpecFinish: a branch is claimed, its worktree created and marked, and
\* finish_pr is run on it by the first process; nothing else runs between
\* the merge and the release of the claim.
NextFinish ==
    \/ \E p \in Pids :
          /\ ~FinishPending
          /\ AddClaim(p, GuardWt, PlanScope[1], PlanScope[2], FALSE, TRUE)
          /\ NoHistory
    \/ ~FinishPending /\ CreateWorktree(GuardWt) /\ NoHistory
    \/ \E content \in MarkerInputs :
          ~FinishPending /\ WriteMarker(GuardWt, content) /\ NoHistory
    \/ \E fin \in FinishInputs :
          ~FinishPending /\ FinishPr(GuardWt, fin) /\ NoHistory
    \/ FinishPrRelease(1) /\ NoHistory
    \/ ~FinishPending /\ Tick /\ NoHistory

SpecFinish == Init /\ [][NextFinish]_vars

\* SpecOverlap: the claim requests of two instances overlap on either scope,
\* while worktrees are created and claims are released.
NextOverlap ==
    \/ \E p \in Pids, sc \in AllScopes :
          BeginClaim(p, PidCc[p], sc[1], sc[2], FALSE, TRUE) /\ NoHistory
    \/ \E p \in Pids : FinishClaim(p) /\ Raced(p)
    \/ \E cc \in Branches : ReleaseClaim(1, cc, TRUE, FALSE) /\ NoHistory
    \/ \E b \in Branches : CreateWorktree(b) /\ NoHistory

SpecOverlap == Init /\ [][NextOverlap]_vars

\* SpecPersist: claim requests of two processes for one branch, on every
\* scope, forced or not, with a claim file that can or cannot be written.
PersistScopes == {PlanScope, FeatureScope, BogusScope, <<Some(5), Some("ledger")>>}

NextPersist ==
    \/ \E p \in Pids, sc \in PersistScopes, force \in BOOLEAN :
          AddClaim(p, GuardWt, sc[1], sc[2], force, TRUE) /\ NoHistory
    \/ \E p \in Pids, sc \in PersistScopes, force \in BOOLEAN :
          AddClaimUnwritable(p, GuardWt, sc[1], sc[2], force, TRUE) /\ NoHistory
    \/ ReleaseClaim(1, GuardWt, TRUE, FALSE) /\ NoHistory
    \/ CreateWorktree(GuardWt) /\ NoHistory
    \/ RemoveWorktree(GuardWt) /\ NoHistory
    \/ Tick /\ NoHistory

SpecPersist == Init /\ [][NextPersist]_vars

\* SpecDry: orphan and stale cleanups, each as a dry run and as a real run,
\* over claims whose worktrees come, go and grow old.
NextDry ==
    \/ \E cc \in Branches :
          AddClaim(1, cc, PlanScope[1], PlanScope[2], TRUE, TRUE) /\ NoHistory
    \/ \E dry_run \in BOOLEAN : CleanupOrphaned(1, dry_run) /\ NoHistory
    \/ \E dry_run \in BOOLEAN, mt \in StaleMtimeInputs :
          CleanupStale(1, DefaultStaleHours, dry_run, mt) /\ NoHistory
    \/ \E b \in Branches : CreateWorktree(b) /\ NoHistory
    \/ \E b \in Branches : RemoveWorktree(b) /\ NoHistory
    \/ Tick /\ NoHistory

SpecDry == Init /\ [][NextDry]_vars

\* SpecMain: claim requests and claim files aimed at the main branch and at
\* the main checkout, forced or not, next to those of a work branch.
MainInputs == {MainBranch, GuardWt}

NextMain ==
    \/ \E cc \in MainInputs, sc \in AllScopes, force \in BOOLEAN :
          AddClaim(1, cc, sc[1], sc[2], force, TRUE) /\ NoHistory
    \/ \E path \in MainInputs, cc \in MainInputs, force \in BOOLEAN :
          WriteClaimFile(2, path, cc, FeatureScope[1], FeatureScope[2], force)
             /\ NoHistory
    \/ \E cc \in MainInputs : ReleaseClaim(1, cc, TRUE, FALSE) /\ NoHistory
    \/ ListClaims(1) /\ NoHistory
    \/ CreateWorktree(GuardWt) /\ NoHistory
    \/ RemoveWorktree(GuardWt) /\ NoHistory

SpecMain == Init /\ [][NextMain]_vars

\* ------------------------------------------------------------ claims
Scopes == {PlanScope, FeatureScope, BogusScope}

\* The conflict rule in the specification's words: the proposed plan is set
\* and equals the claim's, or the proposed feature is set and equals the
\* claim's.
Matches(plan, feature, c) ==
    \/ plan # None /\ c.plan = plan
    \/ feature # None /\ c.feature = feature

\* ... and nothing conflicts with a proposed feature "shared".
Conflicts(plan, feature, c) ==
    feature # Some("shared") /\ Matches(plan, feature, c)

MatchingClaims(plan, feature, claims) ==
    LET Test(c) == Matches(plan, feature, c)
    IN  SelectSeq(claims, Test)

Checked ==
    query # None /\ last.op = "check_conflict" /\ last.reason # "no_scope"

\* C2: whatever the existing claims and the proposed plan, a check for the
\* proposed feature "shared" reports no conflict, also when the proposed plan
\* is the plan of an existing claim.
C2_SharedNeverConflicts ==
    (Checked /\ query[1][2] = Some("shared"))
        => last.ok /\ last.ids = <<>>

C2_Witness ==
    /\ Checked /\ query[1][2] = Some("shared") /\ query[1][1] = Some(5)
    /\ last.ok
    /\ \E c \in SeqRange(ActiveClaims) : c.plan = Some(5)
    /\ \E c \in SeqRange(ActiveClaims) : c.feature = Some("shared")

\* C3: for a proposed feature other than "shared", the check returns exactly
\* the existing claims whose plan is the proposed plan or whose feature is the
\* proposed feature, each once and in their order, for every plan number
\* (0 included) and when one claim collides on plan and another on feature.
C3_ExactlyTheMatchingClaims ==
    (Checked /\ query[1][2] # Some("shared"))
        => last.ids = MatchingClaims(query[1][1], query[1][2], ActiveClaims)

C3_Witness ==
    /\ Checked /\ query[1] = <<Some(5), Some("ledger")>>
    /\ Len(last.ids) = 2
    /\ last.ids[1].plan = Some(5) /\ last.ids[1].feature # Some("ledger")
    /\ last.ids[2].feature = Some("ledger") /\ last.ids[2].plan # Some(5)

\* The active claims of other cc_ids that a request of cc for <<plan, feature>>
\* collides with, before the request runs.
OtherHolders(cc, plan, feature) ==
    {c.cc_id : c \in {d \in SeqRange(ActiveClaims) :
                        d.cc_id # cc /\ Conflicts(plan, feature, d)}}

\* The step is a claim request of cc (read off the outcome the request leaves).
ClaimStep(cc, force) ==
    last'.op = "claim" /\ last'.cc = cc /\ last'.force = force

ReleaseStep(cc, force) ==
    last'.op = "release" /\ last'.cc = cc /\ last'.force = force

\* The returns of add_claim that come before its conflict check do not apply.
ReachesConflictCheck(cc, plan, feature, depsOk) ==
    /\ cc # MainBranch
    /\ cc \notin ActiveIds
    /\ TruthyInt(plan) => depsOk
    /\ TruthyStr(feature) => feature[1] \in ValidFeatures

\* C4 as stated: a claim request without force whose scope conflicts with a
\* claim of another cc_id returns failure, lists that holder among the
\* conflicts, and changes neither the ledger nor a claim file nor the history.
C4_RejectedListingHolder ==
    [][\A cc \in CcInputs, sc \in Scopes, depsOk \in BOOLEAN :
         (/\ ClaimStep(cc, FALSE)
          /\ OtherHolders(cc, sc[1], sc[2]) # {}
          /\ AddClaim(1, cc, sc[1], sc[2], FALSE, depsOk))
         => /\ ~last'.ok
            /\ OtherHolders(cc, sc[1], sc[2]) \subseteq SeqRange(last'.ids)
            /\ UNCHANGED persisted]_vars

\* C4 amended: such a request returns failure and changes nothing; it lists
\* the holder whenever it is not turned down before the conflict check (cc_id
\* main, a claim already held by the cc_id, unmet dependencies, unknown feature).
C4_Rejected ==
    [][\A cc \in CcInputs, sc \in Scopes, depsOk \in BOOLEAN :
         (/\ ClaimStep(cc, FALSE)
          /\ OtherHolders(cc, sc[1], sc[2]) # {}
          /\ AddClaim(1, cc, sc[1], sc[2], FALSE, depsOk))
         => /\ ~last'.ok
            /\ UNCHANGED <<persisted, sessions>>
            /\ ReachesConflictCheck(cc, sc[1], sc[2], depsOk)
                 => /\ last'.reason = "conflict"
                    /\ OtherHolders(cc, sc[1], sc[2]) \subseteq SeqRange(last'.ids)]_vars

C4_Witness ==
    /\ last.op = "claim" /\ ~last.force /\ ~last.ok /\ last.reason = "conflict"
    /\ last.ids # <<>>
    /\ \E c \in SeqRange(ActiveClaims) : c.cc_id # last.cc /\ c.cc_id \in SeqRange(last.ids)

\* What a successful forced request of cc leaves: every claim that was active
\* is still active and equal, no other claim file was touched, and cc holds
\* the requested scope.
ForcedClaimAdded(cc, plan, feature) ==
    /\ last'.ok
    /\ SeqRange(ActiveClaims) \subseteq SeqRange(ActiveClaims')
    /\ Len(ActiveClaims') = Len(ActiveClaims) + 1
    /\ \A b \in CcInputs \ {cc} : claimFile'[b] = claimFile[b]
    /\ \E c \in SeqRange(ActiveClaims') :
         c.cc_id = cc /\ c.plan = plan /\ c.feature = feature

\* C5 as stated: a claim request with force whose scope conflicts with an
\* existing claim succeeds, and afterwards the earlier claim, unmodified, and
\* the new claim are both active.
C5_ForcedSucceeds ==
    [][\A cc \in CcInputs, sc \in Scopes, depsOk \in BOOLEAN :
         (/\ ClaimStep(cc, TRUE)
          /\ \E c \in SeqRange(ActiveClaims) : Conflicts(sc[1], sc[2], c)
          /\ AddClaim(1, cc, sc[1], sc[2], TRUE, depsOk))
         => ForcedClaimAdded(cc, sc[1], sc[2])]_vars

\* C5 amended: it succeeds, with both claims active afterwards, when the
\* requesting cc_id is not main, holds no active claim of its own, and names
\* no feature outside the registered ones.
C5_ForcedSucceedsForNewHolder ==
    [][\A cc \in CcInputs, sc \in Scopes, depsOk \in BOOLEAN :
         (/\ ClaimStep(cc, TRUE)
          /\ cc # MainBranch /\ cc \notin ActiveIds
          /\ TruthyStr(sc[2]) => sc[2][1] \in ValidFeatures
          /\ \E c \in SeqRange(ActiveClaims) : Conflicts(sc[1], sc[2], c)
          /\ AddClaim(1, cc, sc[1], sc[2], TRUE, depsOk))
         => ForcedClaimAdded(cc, sc[1], sc[2])]_vars

C5_Witness ==
    /\ last.op = "claim" /\ last.force /\ last.ok /\ last.ids # <<>>
    /\ \E c, d \in SeqRange(ActiveClaims) :
         c.cc_id # d.cc_id /\ c.plan = Some(5) /\ d.plan = Some(5)

\* C7 as stated: add_claim for a cc_id that has an active claim fails and
\* changes nothing without force, and succeeds with force.
C7_ForceReplacesOwnClaim ==
    [][\A cc \in CcInputs, sc \in Scopes, force \in BOOLEAN, depsOk \in BOOLEAN :
         (/\ ClaimStep(cc, force)
          /\ cc \in ActiveIds
          /\ AddClaim(1, cc, sc[1], sc[2], force, depsOk))
         => IF force THEN last'.ok
            ELSE ~last'.ok /\ UNCHANGED persisted]_vars

\* C7 amended: add_claim for a cc_id that has an active claim fails and
\* changes nothing, with force as without.
C7_OwnClaimAlwaysRejected ==
    [][\A cc \in CcInputs, sc \in Scopes, force \in BOOLEAN, depsOk \in BOOLEAN :
         (/\ ClaimStep(cc, force)
          /\ cc \in ActiveIds
          /\ AddClaim(1, cc, sc[1], sc[2], force, depsOk))
         => /\ ~last'.ok
            /\ last'.reason = "already_claimed"
            /\ UNCHANGED <<persisted, sessions>>]_vars

C7_Witness ==
    /\ last.op = "claim" /\ last.force /\ ~last.ok /\ last.reason = "already_claimed"
    /\ last.cc \in ActiveIds

\* C10: releasing a cc_id that has no active claim returns failure and leaves
\* the ledger's claims and the history as they were, so that the next such
\* release finds the same state and fails the same way.
C10_ReleaseWithoutClaimFails ==
    [][\A cc \in CcInputs, force \in BOOLEAN :
         (/\ ReleaseStep(cc, force)
          /\ cc \notin ActiveIds
          /\ ReleaseClaim(1, cc, force, FALSE))
         => /\ ~last'.ok
            /\ last'.reason = "no_claim"
            /\ UNCHANGED <<persisted, sessions, worktrees>>
            /\ cc \notin ActiveIds']_vars

C10_Witness ==
    /\ last.op = "release" /\ ~last.ok /\ last.reason = "no_claim"
    /\ last.cc \notin ActiveIds
    /\ ledgerCompleted # <<>>

C8_ReclaimAfterReleaseSucceeds ==
    cycle.stage = 3 => cycle.ok /\ cycle.at2 >= cycle.at

\* C9: a cc_id whose claim was released or cleaned up, and for which no claim
\* request has succeeded since, has no active claim.
C9_NoResurrection ==
    \A x \in gone : x \notin ActiveIds

\* The active claim of cc carries a session id.
HeldWithSession(cc) ==
    \E c \in SeqRange(ActiveClaims) : c.cc_id = cc /\ c.session_id \in SessionIds

OwnerOf(cc) == FindByCcId(ActiveClaims, cc)[1].session_id

\* C20: a release without force of a claim that carries a session_id succeeds
\* only when the caller's session is the claim's or the owning session is
\* stale; otherwise it returns failure (ownership) and leaves claims and
\* history unchanged.  With force it succeeds whoever owns the claim.
C20_ReleaseOwnership ==
    [][\A p \in Pids, force \in BOOLEAN :
         (/\ ReleaseStep(HistCc, force)
          /\ HeldWithSession(HistCc)
          /\ ReleaseClaim(p, HistCc, force, FALSE))
         => IF force THEN last'.ok
            ELSE IF OwnerOf(HistCc) = SessionIdOf(p) \/ IsSessionStale(OwnerOf(HistCc))
            THEN last'.ok
            ELSE /\ ~last'.ok
                 /\ last'.reason = "ownership"
                 /\ UNCHANGED persisted]_vars

C20_Witness ==
    /\ last.op = "release" /\ ~last.force /\ ~last.ok /\ last.reason = "ownership"
    /\ HeldWithSession(HistCc)
    /\ ~IsSessionStale(OwnerOf(HistCc))

\* ------------------------------------------------------------ removal guard claims
\* A step that is a call of should_block_removal; the verdict is in last',
\* what the call was asked about in query'.
GuardCall ==
    /\ last'.op = "guard" /\ query' # None
    /\ ShouldBlockRemoval(GuardWt, last'.force, query'[1])

\* The ledger's claims recorded for a worktree.
LedgerClaimsOf(wt) == {c \in SeqRange(ledgerClaims) : c.worktree_path = Some(wt)}
CallerOwns(c, env) == c.cc_id = env.loc.branch \/ c.cc_id = env.loc.cwd
BranchMerged(env) == env.wt_branch # None /\ env.wt_branch[1] \in env.merged
Inside(path, dir) == path = dir \/ StartsWith(path, dir \o <<"/">>)
ProcessInside(wt, env) == \E pr \in env.procs : pr.pid # env.me /\ Inside(pr.cwd, Dir(wt))
MarkerUnderDay(wt) ==
    /\ marker[wt] # None /\ marker[wt][1].parses
    /\ Minutes(now) - marker[wt][1].t < 24 * 60
Blocked(reason) == ~last'.ok /\ last'.reason = reason
PlainAllow == last'.ok /\ last'.reason = ""

\* C17: with force the guard's verdict is a plain ALLOW, whatever the claim,
\* its owner, the session marker and the live processes.
C17_ForceAllows == [][GuardCall /\ last'.force => PlainAllow]_vars

C17_Witness ==
    /\ last.op = "guard" /\ last.force /\ last.ok /\ last.ids # <<>>
    /\ query # None /\ ProcessInside(GuardWt, query[1]) /\ query[1].has_psutil
    /\ MarkerUnderDay(GuardWt)

C15_OwnClaimBlocks ==
    [][(/\ GuardCall /\ ~last'.force
        /\ \E c \in LedgerClaimsOf(GuardWt) : CallerOwns(c, query'[1]))
       => Blocked("claim")]_vars

C15_Witness ==
    /\ last.op = "guard" /\ ~last.force /\ ~last.ok /\ last.reason = "claim"
    /\ query # None /\ query[1].loc.branch # GuardWt /\ query[1].loc.cwd = GuardWt
    /\ BranchMerged(query[1]) /\ ~query[1].status.modified

\* C13 as stated: without force, for a claim of another identity the verdict
\* is the non-blocking "merged_safe" carrying the claim exactly when the
\* branch is merged and the worktree holds no uncommitted modifications, and
\* BLOCK "ownership" otherwise.
C13_MergedSafeIffClean ==
    [][\A c \in LedgerClaimsOf(GuardWt) :
         (GuardCall /\ ~last'.force /\ ~CallerOwns(c, query'[1]))
         => IF BranchMerged(query'[1]) /\ ~query'[1].status.modified
            THEN last'.ok /\ last'.reason = "merged_safe" /\ last'.ids = <<c>>
            ELSE Blocked("ownership")]_vars

\* C13 amended: ... exactly when the branch is merged and git status reports
\* no modification, a git status that fails counting as none.
C13_MergedSafeIffNoneReported ==
    [][\A c \in LedgerClaimsOf(GuardWt) :
         (GuardCall /\ ~last'.force /\ ~CallerOwns(c, query'[1]))
         => IF /\ BranchMerged(query'[1])
               /\ ~(query'[1].status.ran /\ query'[1].status.modified)
            THEN last'.ok /\ last'.reason = "merged_safe" /\ last'.ids = <<c>>
            ELSE Blocked("ownership")]_vars

C13_Witness ==
    /\ last.op = "guard" /\ ~last.force /\ last.ok /\ last.reason = "merged_safe"
    /\ last.ids # <<>> /\ query # None /\ ~query[1].status.ran
    /\ BranchMerged(query[1])

\* C16: without force and with no claim for the worktree, the verdict is
\* BLOCK "session_marker" when the marker is less than 24 hours old, else
\* BLOCK "process" when another live process has its working directory inside
\* the worktree, else a plain ALLOW.  Stated for a host where processes can
\* be inspected (without psutil the process check finds nothing).
C16_MarkerThenProcessThenAllow ==
    [][(/\ GuardCall /\ ~last'.force /\ LedgerClaimsOf(GuardWt) = {}
        /\ query'[1].has_psutil)
       => IF MarkerUnderDay(GuardWt) THEN Blocked("session_marker")
          ELSE IF ProcessInside(GuardWt, query'[1]) THEN Blocked("process")
          ELSE PlainAllow]_vars

\* C12: without force, a worktree that holds a claim file never gets a plain
\* ALLOW.
C12_ClaimFileLocks ==
    [][(GuardCall /\ ~last'.force /\ claimFile[GuardWt] # None) => ~PlainAllow]_vars

\* C18: a call of should_block_removal leaves the ledger, the completed
\* history, the worktree's claim file, its session marker and the worktree
\* as they were.
C18_GuardOnlyJudges ==
    [][GuardCall => UNCHANGED <<ledgerClaims, ledgerCompleted, claimFile, marker,
                               worktrees>>]_vars

C18_Witness ==
    /\ last.op = "guard" /\ last.ok /\ last.reason = "merged_safe"
    /\ last.ids # <<>> /\ SeqRange(last.ids) \subseteq LedgerClaimsOf(GuardWt)
    /\ ledgerCompleted = <<>>

\* ------------------------------------------------------------ removal claims
\* What the removal script meets when the worktree's branch is merged and
\* git status runs and reports nothing.
MergedCleanEnvs ==
    {env \in RemoveEnvs(GuardWt) :
        BranchMerged(env) /\ env.status.ran /\ ~env.status.modified}

\* The step is a run of the removal script without force, on an existing
\* worktree with the ledger claim c, by a caller of another identity standing
\* outside it.
RemovalByOther(c, env, git_ok) ==
    /\ last'.op = "remove" /\ ~last'.force /\ GuardWt \in worktrees
    /\ ~CallerOwns(c, env) /\ ~Inside(env.loc.path, Dir(GuardWt))
    /\ SafeRemoveWorktree(GuardWt, FALSE, env, git_ok)

\* The guard let the removal through: what may still fail is git itself.
NotRefusedByGuard == last'.reason \in {"", "git"}

\* The step appended exactly one record to the completed history.
Appended == Len(ledgerCompleted') = Len(ledgerCompleted) + 1
NewRecord == ledgerCompleted'[Len(ledgerCompleted')]

C19_RemovalAppendsRecord ==
    [][\A cc \in Branches :
         (ledgerClaims' # ledgerClaims /\ cc \in ActiveIds
          /\ cc \notin CcIds(ledgerClaims'))
         => \E i \in (Len(ledgerCompleted) + 1)..Len(ledgerCompleted') :
               ledgerCompleted'[i].cc_id = cc]_vars

C19_Witness ==
    /\ last.op = "remove" /\ last.ids # <<>>
    /\ GuardWt \notin CcIds(ledgerClaims)
    /\ \E i \in 1..Len(ledgerCompleted) : ledgerCompleted[i].cc_id = GuardWt

\* ------------------------------------------------------------ session claims
\* The session files that carry the id, and whether a record's last_activity
\* is a timestamp.
RecordsOf(sid) ==
    {sessions[q][1] : q \in {r \in Pids : /\ sessions[r] # None
                                         /\ sessions[r][1].session_id = Some(sid)}}
ValidActivity(r) == r.last_activity # None /\ r.last_activity[1].fmt = "iso"
AgeOf(r) == (now - r.last_activity[1].t) * TickMinutes

StaleCall ==
    /\ last'.op = "is_session_stale" /\ query' # None
    /\ CheckSessionStale(query'[1][1], query'[1][2])

\* C21: is_session_stale(id, t) answers not stale exactly when a session
\* record with that id has a valid last_activity at most t minutes old; it
\* answers stale when there is no such record, when last_activity is missing
\* or malformed, and when the age exceeds t.
C21_StaleUnlessRecentRecord ==
    [][StaleCall =>
         (~last'.ok <=> \E r \in RecordsOf(query'[1][1]) :
                           ValidActivity(r) /\ AgeOf(r) <= query'[1][2])]_vars

C21_Witness ==
    /\ last.op = "is_session_stale" /\ ~last.ok /\ query # None
    /\ \E r \in RecordsOf(query[1][1]) : ValidActivity(r) /\ AgeOf(r) = query[1][2]

\* p has a session with an id: get_or_create_session has run for it.
HasIdentity(p) == sessions[p] # None /\ sessions[p][1].session_id # None

\* C22: once p has a session, every --get-session-id and --heartbeat of p
\* returns and persists the same session_id and started_at, and a
\* last_activity that is not earlier than the one before.
C22_StableIdentity ==
    [][\A p \in Pids, w \in WorkingOnInputs :
         (HasIdentity(p) /\ (GetSessionId(p) \/ Heartbeat(p, w)))
         => /\ sessions'[p] # None /\ last'.ids = <<sessions'[p][1]>>
            /\ sessions'[p][1].session_id = sessions[p][1].session_id
            /\ sessions'[p][1].started_at = sessions[p][1].started_at
            /\ ValidActivity(sessions'[p][1])
            /\ ValidActivity(sessions[p][1])
               => sessions'[p][1].last_activity[1].t >= sessions[p][1].last_activity[1].t]_vars

C22_Witness ==
    /\ last.op \in {"get_session_id", "heartbeat"} /\ last.ok /\ HasIdentity(2)
    /\ last.ids = <<sessions[2][1]>>
    /\ sessions[2][1].started_at = Some(IsoFormat(0))
    /\ sessions[2][1].last_activity = Some(IsoFormat(1))

\* C23: after a heartbeat with a working_on value the saved session's
\* working_on is that value, whether the session file existed, was absent or
\* empty; after a heartbeat without one working_on is what it was.
C23_HeartbeatStoresWorkingOn ==
    [][\A p \in Pids, w \in WorkingOnInputs :
         Heartbeat(p, w)
         => IF w # None THEN sessions'[p][1].working_on = w
            ELSE LoadSession(p) # None
                 => sessions'[p][1].working_on = sessions[p][1].working_on]_vars

\* ------------------------------------------------------------ cleanup claims
StaleStep == last'.op \in {"cleanup_stale", "cleanup_stale_dry"}

\* The age in minutes of the modification time found for a claim's worktree.
MtimeAge(mt, c) == (now - mt[c.worktree_path[1]][1]) * TickMinutes

\* C24: the stale cleanup reports a claim as stale when it has no
\* worktree_path, when the path does not exist or when no modification time
\* could be found; otherwise exactly when the most recent modification is more
\* than max_hours old.
C24_StaleIffOlderThanMaxHours ==
    [][\A max_hours \in StaleHourInputs, dry_run \in BOOLEAN, mt \in StaleMtimeInputs :
         (StaleStep /\ CleanupStale(1, max_hours, dry_run, mt))
         => \A c \in SeqRange(ActiveClaims) :
               c.cc_id \in SeqRange(last'.ids)
               <=> IF \/ c.worktree_path = None
                      \/ c.worktree_path[1] \notin worktrees
                      \/ mt[c.worktree_path[1]] = None
                   THEN TRUE
                   ELSE MtimeAge(mt, c) > max_hours * 60]_vars

\* Both worktrees exist at the start time: "a", modified 8 h 40 min ago, was
\* released while "b", modified exactly 8 h ago, was kept.
C24_Witness ==
    /\ last.op = "cleanup_stale" /\ last.ids = <<"a">> /\ now = 0
    /\ {"a", "b"} \subseteq worktrees
    /\ \E c \in SeqRange(ActiveClaims) : c.cc_id = "b" /\ c.worktree_path = Some("b")

\* The claim has no worktree_path, or one that is not on disk.
WorktreeGone(c) ==
    c.worktree_path = None \/ c.worktree_path[1] \notin worktrees \cup {MainBranch}

OrphanRun == last'.op = "cleanup_orphaned" /\ CleanupOrphaned(1, FALSE)

\* C25: --cleanup-orphaned removes exactly the claims whose worktree_path is
\* missing or does not exist, whatever their age, and keeps the others in
\* order; it leaves no such claim behind, and a run that finds none removes
\* nothing and leaves the claims and the history unchanged.
C25_OrphanCleanupExactAndIdempotent ==
    [][OrphanRun
       => /\ \A c \in SeqRange(ActiveClaims) :
                c.cc_id \in SeqRange(last'.ids) <=> WorktreeGone(c)
          /\ \A c \in SeqRange(ActiveClaims) :
                ~WorktreeGone(c) <=> c \in SeqRange(ActiveClaims')
          /\ \A c \in SeqRange(ActiveClaims') : ~WorktreeGone(c)
          /\ (\A c \in SeqRange(ActiveClaims) : ~WorktreeGone(c))
             => last'.ids = <<>> /\ UNCHANGED persisted]_vars

\* A claim made before the first tick was removed after it, its worktree
\* being gone, while the claim of the other branch was kept.
C25_Witness ==
    /\ last.op = "cleanup_orphaned" /\ Len(last.ids) = 1 /\ now = 1
    /\ Len(ledgerCompleted) = 1
    /\ ledgerCompleted[1].reason = Some("auto_released_orphaned")
    /\ ledgerCompleted[1].completed_at = IsoFormat(1)
    /\ Len(ActiveClaims) = 1 /\ ActiveClaims[1].claimed_at = StrftimeZ(0)
    /\ ActiveClaims[1].cc_id \notin SeqRange(last.ids)

\* ------------------------------------------------------------ claim file claims
\* The fields of a claim that the specification defines.
DefinedFields(c) ==
    [cc_id |-> c.cc_id, task |-> c.task, claimed_at |-> c.claimed_at,
     session_id |-> c.session_id, plan |-> c.plan, feature |-> c.feature,
     files |-> c.files]

\* C26: when add_claim writes its claim to the worktree's .claim.yaml,
\* loading the file back gives the claim it made (the one it appends to the
\* ledger) on every defined field: cc_id, task, claimed_at, session_id,
\* plan, feature and files.
C26_ClaimFileRoundTrip ==
    [][\A plan \in PlanInputs, feature \in RoundTripFeatures, files \in FilesInputs :
         (/\ last'.op = "claim" /\ last'.ok /\ GuardWt \in worktrees
          /\ AddClaimWithFiles(1, GuardWt, plan, feature, files, TRUE, TRUE))
         => /\ LoadClaimFromWorktree(GuardWt)' # None
            /\ DefinedFields(LoadClaimFromWorktree(GuardWt)'[1])
                 = DefinedFields(ledgerClaims'[Len(ledgerClaims')])]_vars

ListCall == last'.op = "list" /\ ListClaims(1)

\* The listed claims with a cc_id.
Listed(claims, cc) == {i \in 1..Len(claims) : claims[i].cc_id = cc}

\* C27: every worktree other than main with a claim file is listed once, under
\* its branch as cc_id and with the fields of its file (session_id
\* included), whatever the ledger holds for that cc_id; a ledger claim whose
\* cc_id is the branch of no worktree is listed as it is in the ledger,
\* flagged legacy.
C27_WorktreeFileIsGroundTruth ==
    [][ListCall
       => /\ \A b \in worktrees :
                claimFile[b] # None
                => /\ Cardinality(Listed(last'.ids, b)) = 1
                   /\ \A i \in Listed(last'.ids, b) :
                         last'.ids[i] = [claimFile[b][1] EXCEPT !.cc_id = b,
                                                                !.worktree_path = Some(b)]
          /\ \A k \in 1..Len(ledgerClaims) :
                ledgerClaims[k].cc_id \notin worktrees
                => \E i \in 1..Len(last'.ids) :
                      last'.ids[i] = [ledgerClaims[k] EXCEPT !.legacy = TRUE]]_vars

\* Listed: one claim from the file of worktree "a" (written by the second
\* session under another cc_id) while the ledger holds the first session's
\* claim of "a", and the ledger's claim of "b", which has no worktree.
C27_Witness ==
    /\ last.op = "list" /\ Len(last.ids) = 2
    /\ last.ids[1].cc_id = "a" /\ last.ids[1].session_id = 2 /\ ~last.ids[1].legacy
    /\ last.ids[2].cc_id = "b" /\ last.ids[2].session_id = 1 /\ last.ids[2].legacy
    /\ worktrees = {"a"} /\ claimFile["a"] # None /\ claimFile["a"][1].cc_id = "b"
    /\ \E k \in 1..Len(ledgerClaims) :
          ledgerClaims[k].cc_id = "a" /\ ledgerClaims[k].session_id = 1

\* ------------------------------------------------------------ history claims
\* C28: every step that takes a claim out of the ledger and records it leaves
\* a completed history of at most 50 records, at most 20 when the step is an
\* explicit release, and the record of the claim it destroyed is the last
\* one; this on every path, the removal script's merged auto-release included.
C28_HistoryBounded ==
    [][ledgerCompleted' # ledgerCompleted
       => /\ Len(ledgerCompleted')
               <= (IF last'.op = "release" THEN KeepRelease ELSE KeepCleanup)
          /\ ledgerCompleted'[Len(ledgerCompleted')].cc_id = GuardWt]_vars


\* The minutes since a history record was completed.
RecordAge(c) == (now - c.completed_at.t) * TickMinutes

\* C29: --cleanup leaves exactly the history records completed at most 24
\* hours ago, in their order, whichever path wrote them: explicit release,
\* merged, stale or orphan cleanup, or the removal script's auto-release.
C29_RetentionOnEveryPath ==
    [][(last'.op = "cleanup" /\ Cleanup(1))
       => ledgerCompleted'
            = SelectSeq(ledgerCompleted,
                        LAMBDA c : RecordAge(c) <= RetentionHours * 60)]_vars


\* ------------------------------------------------------------ damaged file claims
UncaughtErrors == {"YAMLError", "PermissionError", "KeyError"}

\* C30: whatever is wrong with the ledger file or a session file, no command
\* of the claim tool (list, claim, release, cleanup, check-conflict,
\* heartbeat) and no run of the guard ends in an uncaught failure: each
\* returns its decision.
C30_NoUncaughtFailure == last.reason \notin UncaughtErrors


\* ------------------------------------------------------------ lease claims
\* The step lets time pass and nothing else acts.
TimePasses == now' # now

ClaimingOps == {"claim", "write_claim_file"}
EndingOps == {"release", "cleanup_merged", "cleanup_orphaned", "cleanup_stale", "remove"}

\* The step is the run of a command that ends claims: it printed a new outcome.
EndingStep == last' # last /\ last'.op \in EndingOps

SharedRequestReturns(p) ==
    /\ inflight[p] # None /\ inflight'[p] = None
    /\ FindByCcId(inflight[p][1].data.claims, inflight[p][1].cc_id) = None

\* The request of p succeeds, reports no conflict and its claim is active.
SharedGranted(p) ==
    /\ last' = Outcome("claim", PidCc[p], FALSE, TRUE, "", <<>>)
    /\ PidCc[p] \in ActiveIds'

\* C32 (as stated): every request for "shared" succeeds with no conflict
\* reported, and the claims stay active, however the requests overlap.
C32_SharedNeverConflicts ==
    [][/\ \A p \in Pids : SharedRequestReturns(p) => SharedGranted(p)
       /\ ActiveIds \subseteq ActiveIds']_vars

\* C32: every request for "shared" by a cc_id that holds no claim succeeds
\* with no conflict reported and its claim is active; the claim of the other
\* instance stays active when the request wrote from data that was still
\* current, or when that claim was written to a worktree's claim file.
C32_SharedUnlessOverwritten ==
    [][\A p \in Pids :
         SharedRequestReturns(p) =>
            /\ SharedGranted(p)
            /\ \A cc \in ActiveIds \ ActiveIds' :
                  /\ inflight[p][1].data # LoadYaml
                  /\ claimFile[cc] = None]_vars

\* Both instances hold an active claim on "shared".
C32_Witness ==
    /\ \A cc \in Branches :
          \E i \in 1..Len(ActiveClaims) :
             ActiveClaims[i].cc_id = cc /\ ActiveClaims[i].feature = Some("shared")
    /\ last.op = "claim" /\ last.ok

\* ------------------------------------------------------------ finish_pr claims
\* finish_pr has run on the branch and returned failure.
FinishFails == \E fin \in FinishInputs : FinishPr(GuardWt, fin) /\ ~last'.ok

\* C33: whenever finish_pr returns failure it has changed nothing: the
\* worktree with its claim file and session marker is still there, the PR is
\* not merged and the claim is still active.
C33_FinishIsAtomic ==
    [][FinishFails =>
         /\ UNCHANGED <<worktrees, persisted, marker>>
         /\ ActiveIds' = ActiveIds]_vars

\* ------------------------------------------------------------ registry claims
\* A claim request that names the unregistered feature has run.
BogusRequest ==
    \E cc \in CcInputs, force \in BOOLEAN, depsOk \in BOOLEAN :
       /\ last'.cc = cc /\ last'.force = force
       /\ AddClaim(1, cc, BogusScope[1], BogusScope[2], force, depsOk)

\* C34: a claim request naming a feature that is not in the registry is
\* rejected, with or without force, and writes nothing: the ledger and every
\* claim file are unchanged and no claim becomes active.
C34_UnknownFeatureRejected ==
    [][BogusRequest =>
         /\ ~last'.ok
         /\ UNCHANGED <<persisted, worktrees>>
         /\ ActiveClaims' = ActiveClaims]_vars

\* A forced request was rejected for its feature while another claim was held.
C34_Witness ==
    /\ last.op = "claim" /\ last.force /\ ~last.ok
    /\ last.reason = "unknown_feature"
    /\ ActiveClaims # <<>>

\* ------------------------------------------------------------ concurrent claim claims
\* Process p returns from its claim request with success.
Acknowledged(p) == inflight[p] # None /\ inflight'[p] = None /\ last'.ok

\* The ledger holds what the request of p loaded, plus its new claim: the
\* writes other requests made since p loaded are gone from it.
LastWriterWins(p) ==
    /\ Len(ledgerClaims') = Len(inflight[p][1].data.claims) + 1
    /\ SubSeq(ledgerClaims', 1, Len(ledgerClaims') - 1) = inflight[p][1].data.claims
    /\ ledgerClaims'[Len(ledgerClaims')].cc_id = inflight[p][1].cc_id

\* The cc_ids whose worktree holds a claim file.
WithClaimFile == {b \in worktrees : claimFile[b] # None}

PersistRequest(p, written) ==
    /\ last'.op = "claim" /\ last'.cc = GuardWt
    /\ \E sc \in PersistScopes, force \in BOOLEAN :
          IF written THEN AddClaim(p, GuardWt, sc[1], sc[2], force, TRUE)
          ELSE AddClaimUnwritable(p, GuardWt, sc[1], sc[2], force, TRUE)

\* The entry the request appended to the ledger.
NewEntry == ledgerClaims'[Len(ledgerClaims')]

\* The ledger has one more entry, for the branch, with the session id of p.
InLedger(p) ==
    /\ Len(ledgerClaims') = Len(ledgerClaims) + 1
    /\ NewEntry.cc_id = GuardWt
    /\ NewEntry.session_id \in SessionIds
    /\ sessions'[p] # None /\ sessions'[p][1].session_id = Some(NewEntry.session_id)

\* The claim file of the branch holds the same claim as the new ledger entry,
\* and the entry records the worktree.
InBothStores ==
    /\ claimFile'[GuardWt] # None
    /\ \A f \in {"cc_id", "plan", "feature", "session_id"} :
          claimFile'[GuardWt][1][f] = NewEntry[f]
    /\ NewEntry.worktree_path = Some(GuardWt)

\* C36 (as stated): a successful claim request is in the ledger with the
\* requesting session's id and, when the cc_id has a worktree, in the claim
\* file with the same cc_id, plan, feature and session id, the ledger entry
\* recording the worktree; a request that fails writes to neither store.
C36_PersistsInBothStores ==
    [][\A p \in Pids, written \in BOOLEAN :
         PersistRequest(p, written) =>
            IF last'.ok
            THEN InLedger(p) /\ (GuardWt \in worktrees => InBothStores)
            ELSE UNCHANGED persisted]_vars

\* C36: as stated when the claim file can be written; when the worktree
\* exists but the file cannot be written, the successful claim is in the
\* ledger alone, without worktree_path, and the claim file is unchanged.
C36_PersistsWhereWritable ==
    [][\A p \in Pids, written \in BOOLEAN :
         PersistRequest(p, written) =>
            IF last'.ok
            THEN /\ InLedger(p)
                 /\ GuardWt \in worktrees /\ written => InBothStores
                 /\ ~written => /\ claimFile' = claimFile
                                /\ NewEntry.worktree_path = None
            ELSE UNCHANGED persisted]_vars

\* The second process holds the claim on plan and feature in both stores.
C36_Witness ==
    /\ last.op = "claim" /\ last.ok
    /\ claimFile[GuardWt] # None
    /\ ledgerClaims # <<>>
    /\ LET e == ledgerClaims[Len(ledgerClaims)]
       IN  /\ e.worktree_path = Some(GuardWt)
           /\ e.plan = Some(5) /\ e.feature = Some("ledger")
           /\ sessions[2] # None /\ sessions[2][1].session_id = Some(e.session_id)
           /\ claimFile[GuardWt][1].session_id = e.session_id

\* ------------------------------------------------------------ merged cleanup claims
\* --cleanup-merged has run with the set of merged branches git reported
\* (empty when git fails).
MergedRun(merged) == last'.op = "cleanup_merged" /\ CleanupMerged(1, merged)

\* C37: merged cleanup moves exactly the active claims whose cc_id is merged
\* to the completed history, with reason "branch_merged" and their cc_id, plan
\* and task; the other claims stay active, unchanged and in order; nothing is
\* changed when no claimed branch is merged.
C37_MergedCleanupMovesExactly ==
    [][\A merged \in SUBSET Branches :
         MergedRun(merged) =>
            LET moved == SelectClaims(ActiveClaims, merged)
                others == SelectClaims(ActiveClaims, CcIds(ActiveClaims) \ merged)
            IN  /\ ActiveClaims' = others
                /\ ledgerCompleted' =
                     LastN(ledgerCompleted \o MergedCompletions(moved), KeepCleanup)
                /\ moved = <<>> => UNCHANGED persisted]_vars

\* ------------------------------------------------------------ dry run claims
\* --cleanup-orphaned has run, as a dry run or not.
OrphanCleanupRun(dry_run) ==
    /\ last'.op = (IF dry_run THEN "cleanup_orphaned_dry" ELSE "cleanup_orphaned")
    /\ CleanupOrphaned(1, dry_run)

\* --cleanup-stale has run, as a dry run or not.
StaleCleanupRun(dry_run, mt) ==
    /\ last'.op = (IF dry_run THEN "cleanup_stale_dry" ELSE "cleanup_stale")
    /\ CleanupStale(1, DefaultStaleHours, dry_run, mt)

\* The cc_ids of the claims the run took out of the ledger's view.
RemovedIds == CcIds(ActiveClaims) \ CcIds(ledgerClaims')

\* The run reported `ids`: a dry run has written nothing, a real run has
\* removed exactly the claims it reported.
ReportedThenRemoved(dry_run, ids) ==
    /\ last'.ids = ids
    /\ IF dry_run \/ ids = <<>>
       THEN UNCHANGED <<persisted, worktrees>>
       ELSE RemovedIds = SeqRange(ids) /\ UNCHANGED <<claimFile, worktrees>>

\* C38: --cleanup-orphaned and --cleanup-stale with --dry-run report the
\* cc_ids a real run removes from the same state, and leave the ledger's
\* claims, the completed history and every claim file unchanged.
C38_DryRunIsReadOnly ==
    [][\A dry_run \in BOOLEAN :
         /\ OrphanCleanupRun(dry_run) =>
               ReportedThenRemoved(dry_run, IdsOf(OrphanedOf(ActiveClaims)))
         /\ \A mt \in StaleMtimeInputs :
               StaleCleanupRun(dry_run, mt) =>
                  ReportedThenRemoved(dry_run,
                     IdsOf(StaleOf(ActiveClaims, DefaultStaleHours, mt)))]_vars

\* A dry run has reported an orphaned claim, and the claim is still there.
C38_Witness ==
    /\ last.op = "cleanup_orphaned_dry"
    /\ last.ids # <<>>
    /\ SeqRange(last.ids) \subseteq CcIds(ledgerClaims)
    /\ ledgerCompleted = <<>>

\* ------------------------------------------------------------ uncommitted changes claims
\* What the removal script meets in a worktree that holds modified, staged
\* or untracked files.
DirtyEnvs == {env \in RemoveEnvs(GuardWt) : env.status.modified}

\* A removal without force was refused.
RefusedWithoutForce == last'.op = "remove" /\ ~last'.force /\ ~last'.ok

\* The removal script has run without force on the existing worktree in
\* `env`: `git worktree remove` without --force refuses a worktree with
\* uncommitted changes, so git_ok is FALSE.
DirtyRemoval(env) ==
    /\ PathExists(GuardWt)
    /\ SafeRemoveWorktree(GuardWt, FALSE, env, FALSE)

\* The script ran `git worktree remove` and reported its failure.
CommandIssued == last'.reason = "git"

\* C39 (as stated): without force a worktree with uncommitted changes is
\* reported blocked, whatever the guard's verdict, and the removal command is
\* not issued.
C39_DirtyNeverReachesGit ==
    [][RefusedWithoutForce =>
         \A env \in DirtyEnvs :
            DirtyRemoval(env) => ~CommandIssued /\ UNCHANGED <<worktrees, claimFile>>]_vars

\* C39: without force a worktree with uncommitted changes is never removed;
\* when `git status` runs in it, the removal is reported blocked, nothing is
\* written and the removal command is not issued; when `git status` fails,
\* the changes go unseen and the command is issued unless the guard blocks.
C39_DirtyNeverRemoved ==
    [][RefusedWithoutForce =>
         \A env \in DirtyEnvs :
            DirtyRemoval(env) =>
               /\ UNCHANGED <<worktrees, claimFile>>
               /\ env.status.ran => ~CommandIssued /\ UNCHANGED persisted
               /\ (/\ ~env.status.ran
                   /\ ~ShouldBlockRemovalVerdict(GuardWt, FALSE, env).block
                   /\ ~StartsWith(CwdOf(env.loc), Dir(GuardWt)))
                     => CommandIssued]_vars

\* A removal without force was refused for uncommitted changes.
C39_Witness ==
    /\ last.op = "remove" /\ ~last.force /\ ~last.ok
    /\ last.reason = "uncommitted"
    /\ GuardWt \in worktrees

\* ------------------------------------------------------------ main branch claims
\* A claim request for the main branch has run.
MainRequest ==
    /\ last'.op = "claim" /\ last'.cc = MainBranch
    /\ \E sc \in AllScopes, force \in BOOLEAN :
          last'.force = force /\ AddClaim(1, MainBranch, sc[1], sc[2], force, TRUE)

\* C40: a claim request with cc_id "main" fails, forced or not, and changes
\* nothing; no claim of main is ever active, and no list reports one, even
\* when a claim file lies in the main checkout.
C40_MainHoldsNoClaim ==
    [][/\ MainRequest =>
            /\ ~last'.ok /\ last'.reason = "main"
            /\ UNCHANGED <<persisted, sessions, worktrees>>
       /\ MainBranch \notin ActiveIds'
       /\ (last'.op = "list" /\ ListClaims(1)) => Listed(last'.ids, MainBranch) = {}]_vars

\* A claim file lies in the main checkout, a forced claim request for main
\* was refused, and a work branch holds a claim.
C40_Witness ==
    /\ claimFile[MainBranch] # None
    /\ last.op = "claim" /\ last.cc = MainBranch /\ last.force /\ ~last.ok
    /\ GuardWt \in ActiveIds
====
